---- MODULE Spec2Model ----
(***************************************************************************)
(* Token lifecycle and request retry layer of n8n-nodes-spryker.           *)
(*                                                                         *)
(* SprykerAuthService (nodes/services/authService.ts) and the minimal      *)
(* request executor (nodes/utils/request.ts) as a state machine.  Every    *)
(* await on the host transport, on getCredentials and on the backoff timer *)
(* is a suspension point: the code between two suspension points is one    *)
(* action.                                                                 *)
(***************************************************************************)
EXTENDS Integers, Naturals, Sequences, FiniteSets, TLC

\* ---------------------------------------------------------------- bounds
NumCalls == 2
MaxTicks == 1
MaxItems == 2
MaxInvocations == 2
MaxFaults == 4
\* modifying calls made on one request builder
MaxEdits == 2
\* build() calls between two modifications of a builder
MaxBuilds == 2
\* requests handed to executeSprykerRequestWithLogging or to the logger
MaxRequests == 1

\* ------------------------------------------------------ program constants
TOKEN_SAFETY_MARGIN == 60000
MAX_RETRY_ATTEMPTS == 3

\* ------------------------------------------------------------ input sets
Calls == 1..NumCalls
Keys == {"k1", "k2"}
\* expiresIn (seconds) the token endpoint may answer with
ExpiresInValues == {60, 61, 28800}
\* how far the wall clock may jump between two steps (ms)
TickSteps == {1000}

VARIABLES
    tokenCache,   \* SprykerAuthService.tokenCache: key -> {accessToken, refreshToken, expiresAt}
    now,          \* Date.now()
    ticks,        \* number of clock jumps taken (bounded)
    faults,       \* number of failed network answers so far (bounded)
    pc,           \* per call: position inside getValidAccessToken
    attempt,      \* per call: loop variable of the retry loop
    inv,          \* per call: which getValidAccessToken invocation of the caller (1, 2)
    ckey,         \* per call: cache key baseUrl:username of its credentials
    creds,        \* per call: what getCredentials('sprykerApi') resolves with
    result,       \* per call: outcome of the last getValidAccessToken invocation
    nIssue,       \* per call: POST /access-tokens requests sent by the invocation
    nRefresh,     \* per call: POST /refresh-tokens requests sent by the invocation
    waits,        \* per call: delays (ms) the invocation has started
    xpc,          \* per call: position inside createSprykerRequest / executeSprykerRequest
    hdr,          \* per call: options.headers.Authorization
    nSend,        \* per call: resource transport calls made by executeSprykerRequest
    xres,         \* per call: outcome of executeSprykerRequest
    retried,      \* per call: the 401 branch of executeSprykerRequest was entered
    lastWrite,    \* per key: the entry of the latest tokenCache.set
    wakeAt,       \* per call: earliest time the pending backoff timer fires
    adminResult,  \* return value of the latest administrative call
    npc,          \* Spryker.execute: position ("idle", "loop", "awaiting", "returned", "thrown")
    items,        \* Spryker.execute: items.length
    idx,          \* Spryker.execute: loop variable i
    continueOnFail, \* what this.continueOnFail() answers
    resource,     \* node parameter 'resource'
    operation,    \* node parameter 'operation'
    withSummary,  \* enableLogging && loggingOptions.includeExecutionSummary
    returnData,   \* Spryker.execute: returnData
    thrown,       \* message of the error Spryker.execute threw
    dispatched,   \* item indexes executeOperation was called for, in call order
    outcomes,     \* how the executeOperation call of each dispatched item settled
    spc,          \* resource service: position ("idle", "creating", "executing", "done")
    smethod,      \* resource service: the methods invoked for the item, in call order
    sparams,      \* resource service: the item's node parameters
    sargs,        \* resource service: arguments handed to createSprykerRequest
    options,      \* resource service: request options built by createSprykerRequest
    sresponse,    \* resource service: what executeSprykerRequest resolved with
    sres,         \* resource service: how the method settled
    builder,      \* a request builder: {baseUrl, endpoint, queryParams}
    builderClass, \* the class the builder was created from
    history,      \* the builder's methods called since its construction, in call order
    built,        \* what build() gave, call by call, since the builder was last modified
    logger,       \* SprykerLogger.instance: {isEnabled, logBuffer, file, ids}
    request,      \* executeSprykerRequestWithLogging: the options object it was given
    lx            \* executeSprykerRequestWithLogging: its locals and position

authVars == <<pc, attempt, inv, ckey, creds, result, nIssue, nRefresh, waits, wakeAt>>
execVars == <<xpc, hdr, nSend, xres, retried>>
adminVars == <<adminResult>>
nodeVars == <<npc, items, idx, continueOnFail, resource, operation, withSummary, returnData,
              thrown, dispatched, outcomes>>
serviceVars == <<spc, smethod, sparams, sargs, options, sresponse, sres>>
tokenVars == <<tokenCache, now, ticks, faults, authVars, execVars, lastWrite, adminVars>>
builderVars == <<builder, builderClass, history, built>>
loggingVars == <<logger, request, lx>>
utilVars == <<builderVars, loggingVars>>
vars == <<tokenVars, nodeVars, serviceVars, utilVars>>

\* ------------------------------------------------------------ Map helpers
EmptyMap == [x \in {} |-> 0]
MapSet(m, k, e) == [x \in (DOMAIN m) \cup {k} |-> IF x = k THEN e ELSE m[x]]
MapDelete(m, k) == [x \in (DOMAIN m) \ {k} |-> m[x]]

\* ------------------------------------------------------------ credentials
\* a URL as scheme, separator and host; the empty string is <<>>
NoUrl == <<>>
GoodUrl == <<"https", "://", "glue.eu.spryker.local">>
BadUrl == <<"glue.eu.spryker.local">>
\* new URL(baseUrl) does not throw
ParsesAsURL(url) == Len(url) = 3 /\ url[1] # "" /\ url[2] = "://" /\ url[3] # ""

\* getCredentials resolved with null
NoCredentials ==
    [present |-> FALSE, username |-> "", password |-> "", baseUrl |-> NoUrl, accessToken |-> ""]
\* the Username & Password credentials of user k
UserCredentials(k) ==
    [present |-> TRUE, username |-> k, password |-> "secret", baseUrl |-> GoodUrl, accessToken |-> ""]
\* credentials of the Access Token method: a pre-issued token, no username, no password
TokenCredentials ==
    [present |-> TRUE, username |-> "", password |-> "", baseUrl |-> GoodUrl, accessToken |-> "preissued"]
\* what the credential store may hold for the node
Credentials ==
    {NoCredentials, TokenCredentials}
       \cup [present : {TRUE}, username : {"", "k1"}, password : {"", "secret"},
             baseUrl : {NoUrl, BadUrl, GoodUrl}, accessToken : {""}]

RECURSIVE Join(_, _)
\* Array.prototype.join
Join(fields, sep) ==
    IF fields = <<>> THEN <<>>
    ELSE IF Len(fields) = 1 THEN fields
    ELSE <<Head(fields), sep>> \o Join(Tail(fields), sep)

\* the password is not asked for
missingFieldsNoPassword(credentials) ==
    (IF credentials.username = "" THEN <<"username">> ELSE <<>>)
       \o (IF credentials.baseUrl = NoUrl THEN <<"baseUrl">> ELSE <<>>)

missingFields(credentials) ==
    (IF credentials.username = "" THEN <<"username">> ELSE <<>>)
       \o (IF credentials.password = "" THEN <<"password">> ELSE <<>>)
       \o (IF credentials.baseUrl = NoUrl THEN <<"baseUrl">> ELSE <<>>)

\* message of the error getValidatedCredentials throws, <<>> when it returns
CredentialsErrorMessage(credentials) ==
    IF ~credentials.present
        THEN <<"No credentials provided. Please configure Spryker API credentials.">>
    ELSE IF Len(missingFields(credentials)) > 0
        THEN <<"Missing required credential fields: ">> \o Join(missingFields(credentials), ", ")
    ELSE IF ~ParsesAsURL(credentials.baseUrl)
        THEN <<"Invalid baseUrl format. Please provide a valid URL (e.g., https://glue.eu.spryker.local)">>
    ELSE <<>>

\* every credential set that passes validation has the one base URL, so the key
\* `${baseUrl}:${username}` is told apart by the username
getCacheKey(credentials) == credentials.username

\* ------------------------------------------------- messages and responses
NoToken == [part |-> "none", id |-> <<0, 0, "none">>]
\* the tokens the server puts in the response to request `id`
AccessTokenOf(id) == [part |-> "access", id |-> id]
RefreshTokenOf(id) == [part |-> "refresh", id |-> id]
\* a getValidAccessToken invocation gets at most one well-formed token response
RequestId(c, via) == <<c, inv[c], via>>

ValidResponses(id) ==
    { [accessToken |-> AccessTokenOf(id), refreshToken |-> RefreshTokenOf(id),
       expiresIn |-> e, expiresInType |-> "number"] : e \in ExpiresInValues }
InvalidResponses(id) ==
    { [accessToken |-> NoToken, refreshToken |-> RefreshTokenOf(id),
       expiresIn |-> 420, expiresInType |-> "number"],
      [accessToken |-> AccessTokenOf(id), refreshToken |-> NoToken,
       expiresIn |-> 420, expiresInType |-> "number"],
      [accessToken |-> AccessTokenOf(id), refreshToken |-> RefreshTokenOf(id),
       expiresIn |-> 0, expiresInType |-> "undefined"] }
TokenResponses(id) == ValidResponses(id) \cup InvalidResponses(id)

\* what helpers.request may reject with
TransportError(status, code, text) == [statusCode |-> status, code |-> code, message |-> <<text>>]
TransportErrors ==
    { TransportError(401, "", "401 - Unauthorized"),
      TransportError(0, "ETIMEDOUT", "connect ETIMEDOUT") }
\* what helpers.request may reject the resource request with
ResourceErrors ==
    TransportErrors \cup
    { TransportError(403, "", "403 - Forbidden"),
      TransportError(404, "", "404 - Not Found"),
      TransportError(422, "", "422 - Unprocessable Entity"),
      TransportError(429, "", "429 - Too Many Requests"),
      TransportError(500, "", "500 - Internal Server Error"),
      TransportError(0, "ECONNREFUSED", "connect ECONNREFUSED"),
      TransportError(0, "ECONNRESET", "read ECONNRESET"),
      TransportError(0, "ENOTFOUND", "getaddrinfo ENOTFOUND") }
PlainError(msg) == [statusCode |-> 0, code |-> "", message |-> msg]

Contains(msg, text) == \E i \in 1..Len(msg) : msg[i] = text

\* ------------------------------------------------------- pure functions
\* the refresh token is not looked at
isValidTokenResponseNoRefreshToken(response) ==
    /\ response.accessToken # NoToken
    /\ response.expiresInType = "number"

isValidTokenResponse(response) ==
    /\ response.accessToken # NoToken
    /\ response.refreshToken # NoToken
    /\ response.expiresInType = "number"

\* the comparison turned around
isTokenValidReversed(entry, t) == t > entry.expiresAt

isTokenValid(entry, t) == t < entry.expiresAt

shouldTryRefresh(entry, t) == entry.expiresAt - t < 5 * 60 * 1000

\* the safety margin is left out
NewCacheEntryNoMargin(response, t) ==
    [accessToken |-> response.accessToken,
     refreshToken |-> response.refreshToken,
     expiresAt |-> t + (response.expiresIn * 1000)]

NewCacheEntry(response, t) ==
    [accessToken |-> response.accessToken,
     refreshToken |-> response.refreshToken,
     expiresAt |-> t + (response.expiresIn * 1000) - TOKEN_SAFETY_MARGIN]

\* message of the error getNewAccessToken rethrows for a caught error
NewTokenErrorMessage(error) ==
    IF error.statusCode = 401 THEN <<"Invalid username or password">>
    ELSE IF error.statusCode = 404
        THEN <<"Spryker API endpoint not found. Please check your baseUrl">>
    ELSE IF error.statusCode = 307 \/ error.statusCode = 308
        THEN <<"Server is redirecting the request. If using HTTPS, try HTTP instead (or vice versa)">>
    ELSE IF error.code = "ECONNREFUSED"
        THEN <<"Cannot connect to Spryker API. Please check your baseUrl and network connection">>
    ELSE IF error.code = "ETIMEDOUT"
        THEN <<"Request timeout. Spryker API is not responding">>
    ELSE IF Contains(error.message, "Unexpected token")
        THEN <<"Received HTML instead of JSON. This usually indicates a redirect or proxy issue. Check your baseUrl protocol (HTTP vs HTTPS)">>
    ELSE <<"Failed to get access token: ">> \o error.message

ExhaustedMessage(error) ==
    <<"Authentication failed after ", ToString(MAX_RETRY_ATTEMPTS), " attempts: ">> \o error.message

\* exponent off by one
BackoffDelayOffByOne(a) == (2 ^ a) * 1000

BackoffDelay(a) == (2 ^ (a - 1)) * 1000

NoResult == [state |-> "pending", token |-> NoToken, via |-> "none", message |-> <<>>]
Success(token, via) == [state |-> "ok", token |-> token, via |-> via, message |-> <<>>]
Failure(msg) == [state |-> "error", token |-> NoToken, via |-> "none", message |-> msg]

\* message of the error executeSprykerRequest throws for a first failure other than 401
RequestErrorMessage(error) ==
    IF error.statusCode = 403
        THEN <<"Access forbidden. Check if your user has the required permissions for this operation.">>
    ELSE IF error.statusCode = 404
        THEN <<"Resource not found. Please check the endpoint URL and resource ID.">>
    ELSE IF error.statusCode = 422
        THEN <<"Validation error: ">> \o error.message \o <<". Please check your request data.">>
    ELSE IF error.code = "ECONNREFUSED"
        THEN <<"Cannot connect to Spryker API. Please check your baseUrl and network connection.">>
    ELSE IF error.code = "ETIMEDOUT"
        THEN <<"Request timeout. Spryker API is not responding.">>
    ELSE <<"Spryker API request failed: ">> \o error.message

NoResponse == [state |-> "pending", body |-> <<>>, message |-> <<>>]
Response(body) == [state |-> "ok", body |-> body, message |-> <<>>]
RequestFailure(msg) == [state |-> "error", body |-> <<>>, message |-> msg]
\* the body the resource endpoint answers the n-th transport call of caller c with
ResponseBody(c, n) == <<"response", ToString(c), ToString(n)>>

NoAdminResult == [op |-> "none", total |-> 0, valid |-> 0, expired |-> 0, removed |-> 0]

\* ------------------------------------------------- JavaScript values
\* strings are sequences of pieces (characters or runs of plain characters)
Undefined == [t |-> "undefined", v |-> <<>>]
Str(pieces) == [t |-> "string", v |-> pieces]
Num(n) == [t |-> "number", v |-> n]
Obj(o) == [t |-> "object", v |-> o]
Null == [t |-> "null", v |-> <<>>]
\* value === 'text'
IsString(value, text) == value.t = "string" /\ value.v = <<text>>
\* value is truthy
Truthy(value) ==
    /\ value.t # "undefined"
    /\ value.t # "null"
    /\ ~(value.t = "string" /\ value.v = <<>>)
    /\ ~(value.t = "number" /\ value.v = 0)

\* ------------------------------------------------ SprykerRequestBuilder
EscapeOf(piece) ==
    IF piece = "," THEN "%2C"
    ELSE IF piece = " " THEN "%20"
    ELSE IF piece = "/" THEN "%2F"
    ELSE piece
\* encodeURIComponent
encodeURIComponent(str) == [n \in 1..Len(str) |-> EscapeOf(str[n])]

\* new SprykerRequestBuilder(baseUrl): baseUrl.replace(/\/$/, '')
NewBuilder(baseUrl) ==
    [baseUrl |-> IF Len(baseUrl) > 0 /\ baseUrl[Len(baseUrl)] = "/"
                 THEN SubSeq(baseUrl, 1, Len(baseUrl) - 1) ELSE baseUrl,
     endpoint |-> Undefined,
     queryParams |-> <<>>]
setEndpoint(builder_, endpoint) == [builder_ EXCEPT !.endpoint = Str(endpoint)]
\* property names that are array indexes ("0", "1", ...): a JavaScript object
\* lists them first, in ascending order, whatever the order they were set in
MaxIndexKey == 9
IsIndexKey(key) == \E n \in 0..MaxIndexKey : ToString(n) = key
IndexOf(key) == CHOOSE n \in 0..MaxIndexKey : ToString(n) = key
\* where a new property `key` goes in the property order of Object.entries
PlaceOf(params, key) ==
    IF IsIndexKey(key)
    THEN Cardinality({n \in 1..Len(params) :
                         IsIndexKey(params[n][1]) /\ IndexOf(params[n][1]) < IndexOf(key)}) + 1
    ELSE Len(params) + 1
InsertAt(seq, place, elem) == SubSeq(seq, 1, place - 1) \o <<elem>> \o SubSeq(seq, place, Len(seq))
\* if (value !== '') queryParams[key] = value, for a string value: a key that is
\* there keeps its place; queryParams is held in the order of Object.entries
addQueryParam(builder_, key, value) ==
    IF value = <<>> THEN builder_
    ELSE IF \E n \in 1..Len(builder_.queryParams) : builder_.queryParams[n][1] = key
    THEN [builder_ EXCEPT !.queryParams =
            [n \in 1..Len(builder_.queryParams) |->
                IF builder_.queryParams[n][1] = key THEN <<key, value>> ELSE builder_.queryParams[n]]]
    ELSE [builder_ EXCEPT !.queryParams = InsertAt(@, PlaceOf(@, key), <<key, value>>)]
\* `${value}` of a string or a number
TextOf(value) ==
    IF value.t = "string" THEN value.v
    ELSE IF value.t = "number" THEN <<ToString(value.v)>>
    ELSE <<value.t>>
\* addQueryParam(key, value) for any JavaScript value:
\* value !== undefined && value !== null && value !== ''
addQueryParamValue(builder_, key, value) ==
    IF value.t \in {"undefined", "null"} THEN builder_
    ELSE addQueryParam(builder_, key, TextOf(value))
addInclude(builder_, include) ==
    IF include # <<>> THEN addQueryParam(builder_, "include", encodeURIComponent(include))
    ELSE builder_
\* addPagination with the offset written from the first page on
addPaginationFromFirstPage(builder_, pageSize, pageNumber) ==
    LET limited == IF pageSize # 0
                   THEN addQueryParam(builder_, "page[limit]", encodeURIComponent(<<ToString(pageSize)>>))
                   ELSE builder_
        offset == (pageNumber - 1) * (IF pageSize # 0 THEN pageSize ELSE 20)
    IN  IF pageNumber # 0 /\ pageNumber >= 1
        THEN addQueryParam(limited, "page[offset]", encodeURIComponent(<<ToString(offset)>>))
        ELSE limited
\* pageSize, pageNumber: 0 stands for an absent parameter
addPagination(builder_, pageSize, pageNumber) ==
    LET limited == IF pageSize # 0
                   THEN addQueryParam(builder_, "page[limit]", encodeURIComponent(<<ToString(pageSize)>>))
                   ELSE builder_
        offset == (pageNumber - 1) * (IF pageSize # 0 THEN pageSize ELSE 20)
    IN  IF pageNumber # 0 /\ pageNumber > 1
        THEN addQueryParam(limited, "page[offset]", encodeURIComponent(<<ToString(offset)>>))
        ELSE limited
RECURSIVE QueryString(_)
QueryString(params) ==
    IF params = <<>> THEN <<>>
    ELSE <<params[1][1], "=">> \o params[1][2]
           \o (IF Len(params) > 1 THEN <<"&">> \o QueryString(Tail(params)) ELSE <<>>)
\* `${this.baseUrl}/${this.endpoint}` and the query string
build(builder_) ==
    builder_.baseUrl \o <<"/">> \o TextOf(builder_.endpoint)
       \o (IF builder_.queryParams # <<>> THEN <<"?">> \o QueryString(builder_.queryParams) ELSE <<>>)
\* what a build() call gives: SprykerRequestBuilderWithLogging throws without an
\* endpoint, SprykerRequestBuilder builds "<baseUrl>/undefined"
BuildOutcome(class, builder_) ==
    IF class = "SprykerRequestBuilderWithLogging" /\ ~Truthy(builder_.endpoint)
    THEN [threw |-> TRUE, url |-> <<"Endpoint is required to build URL">>]
    ELSE [threw |-> FALSE, url |-> build(builder_)]

\* the builder before it is constructed
NoBuilder == [baseUrl |-> <<>>, endpoint |-> Undefined, queryParams |-> <<>>]
BuilderClasses == {"SprykerRequestBuilder", "SprykerRequestBuilderWithLogging"}
BaseUrls == {<<"http://localhost">>, <<"http://localhost", "/">>}
ParamKeys == {"a", "b", "1"}
ParamValues == {Undefined, Null, Str(<<>>), Str(<<"x">>), Num(1)}
IncludeValues == {<<>>, <<"a", ",", "b">>}
PageSizes == {0, 10}
PageNumbers == {0, 1, 2}
\* one call of a modifying method, as the history keeps it
MethodCall(op, key, value, pageSize, pageNumber) ==
    [op |-> op, key |-> key, value |-> value, pageSize |-> pageSize, pageNumber |-> pageNumber]

\* ------------------------------------------------------ createSprykerRequest
NoOptions ==
    [method |-> Undefined, uri |-> <<>>, contentType |-> "", body |-> Undefined,
     authorization |-> NoToken, itemIndex |-> Undefined]
\* the options createSprykerRequest(context, url, itemIndex, method = 'GET', body)
\* builds before it asks for the token, for the arguments `args` that follow
\* context, bound by position
RequestOptions(args) ==
    LET url == args[1]
        itemIndex == IF Len(args) >= 2 THEN args[2] ELSE Undefined
        method == IF Len(args) >= 3 /\ args[3].t # "undefined" THEN args[3] ELSE Str(<<"GET">>)
        body == IF Len(args) >= 4 THEN args[4] ELSE Undefined
        withBody == IsString(method, "POST") /\ Truthy(body)
    IN  [method |-> method,
         uri |-> url.v,
         contentType |-> IF withBody THEN "application/json" ELSE "",
         body |-> IF withBody THEN body ELSE Undefined,
         authorization |-> NoToken,
         itemIndex |-> itemIndex]

\* ------------------------------------------------------ API responses
\* a JSON value that is an object, an array or missing; an object is held as
\* the one element of `value`
Absent == [kind |-> "absent", value |-> <<>>]
Single(res) == [kind |-> "object", value |-> <<res>>]
List(rs) == [kind |-> "array", value |-> rs]
\* a JSON:API resource object
ResourceOf(type, id, attributes) ==
    [id |-> id, type |-> type, attributes |-> attributes, links |-> [self |-> <<type, id>>]]
AttributesOf(type) ==
    IF type = "cms-pages" THEN [name |-> "Imprint", url |-> "/imprint"]
    ELSE IF type = "abstract-products" THEN [sku |-> "001", name |-> "Camera"]
    ELSE IF type = "abstract-product-prices" THEN [price |-> "9999", prices |-> "DEFAULT"]
    ELSE IF type = "abstract-product-availabilities" THEN [availability |-> "true", quantity |-> "10"]
    ELSE IF type = "abstract-product-image-sets" THEN [imageSets |-> "default"]
    ELSE IF type = "product-tax-sets" THEN [name |-> "Standard", restTaxRates |-> "19"]
    ELSE [rating |-> "5", nickname |-> "Test User", summary |-> "Test Summary",
          description |-> "Test Description"]
\* what the resource endpoint may answer for resources of `type`; many: the
\* endpoint is a collection
ApiResponses(type, many) ==
    LET first == ResourceOf(type, "1", AttributesOf(type))
        second == ResourceOf(type, "2", AttributesOf(type))
    IN  { [data |-> Single(first), errors |-> Absent],
          [data |-> Absent, errors |-> List(<<>>)] }
          \cup (IF many THEN {[data |-> List(<<first, second>>), errors |-> Absent]} ELSE {})

\* String.split(',').map(f => f.trim()) on a string whose pieces are names,
\* "," and " "
RECURSIVE SplitComma(_, _)
SplitComma(str, current) ==
    IF str = <<>> THEN <<current>>
    ELSE IF Head(str) = "," THEN <<current>> \o SplitComma(Tail(str), <<>>)
    ELSE SplitComma(Tail(str), Append(current, Head(str)))
RECURSIVE TrimLeft(_)
TrimLeft(str) == IF str # <<>> /\ Head(str) = " " THEN TrimLeft(Tail(str)) ELSE str
RECURSIVE TrimRight(_)
TrimRight(str) ==
    IF str # <<>> /\ str[Len(str)] = " " THEN TrimRight(SubSeq(str, 1, Len(str) - 1)) ELSE str
Trim(str) == TrimLeft(TrimRight(str))
FieldsOf(fieldsToExtract) ==
    LET parts == SplitComma(fieldsToExtract, <<>>)
    IN  [n \in 1..Len(parts) |-> Trim(parts[n])]
\* ExtractFields that always keeps _raw
ExtractFieldsKeepingRaw(record, fieldsToExtract) ==
    LET fields == FieldsOf(fieldsToExtract)
        wanted == {k \in DOMAIN record : k = "_raw" \/ \E n \in 1..Len(fields) : fields[n] = <<k>>}
    IN  [k \in wanted |-> record[k]]

\* the extractedFields object: the requested fields the record has
ExtractFields(record, fieldsToExtract) ==
    LET fields == FieldsOf(fieldsToExtract)
        wanted == {k \in DOMAIN record : \E n \in 1..Len(fields) : fields[n] = <<k>>}
    IN  [k \in wanted |-> record[k]]

\* attribute names the transform of a resource type copies one by one
CopiedAttributes(type) ==
    IF type = "abstract-products"
        THEN {"sku", "name", "description", "averageRating", "reviewCount", "attributes",
              "superAttributes", "superAttributesDefinition", "attributeMap", "metaTitle",
              "metaKeywords", "metaDescription", "attributeNames", "url"}
    ELSE IF type = "abstract-product-prices" THEN {"price", "prices"}
    ELSE IF type = "abstract-product-availabilities" THEN {"availability", "quantity"}
    ELSE IF type = "abstract-product-image-sets" THEN {"imageSets"}
    ELSE IF type = "product-tax-sets" THEN {"name", "restTaxRates"}
    ELSE {"rating", "nickname", "summary", "description"}

\* the transformed object of one resource, before field extraction
Transformed(type, res) ==
    IF type = "cms-pages"
    THEN \* {id, type, ...attributes, links, _raw}
         [k \in {"id", "type", "links", "_raw"} \cup DOMAIN res.attributes |->
             IF k = "links" THEN res.links
             ELSE IF k = "_raw" THEN res
             ELSE IF k \in DOMAIN res.attributes THEN res.attributes[k]
             ELSE res[k]]
    ELSE LET present == {a \in CopiedAttributes(type) : a \in DOMAIN res.attributes}
             \* transformAbstractProductResponse deletes the undefined values
             kept == IF type = "abstract-products" THEN present ELSE CopiedAttributes(type)
         IN  [k \in {"id", "type", "links", "_raw"} \cup kept |->
                 IF k = "links" THEN res.links
                 ELSE IF k = "_raw" THEN res
                 ELSE IF k \in {"id", "type"} THEN res[k]
                 ELSE IF k \in present THEN res.attributes[k]
                 ELSE "undefined"]

\* transformSingle...(resource, fieldsToExtract): one output record
TransformOne(type, res, fieldsToExtract) ==
    IF fieldsToExtract # <<>>
    THEN [json |-> ExtractFields(Transformed(type, res), fieldsToExtract)]
    ELSE [json |-> Transformed(type, res)]
\* TransformData that keeps the first resource of an array only
TransformDataFirstOnly(type, data, fieldsToExtract) ==
    <<TransformOne(type, data.value[1], fieldsToExtract)>>

\* transform...Response(data, fieldsToExtract): Array.isArray(data) ? map : [one]
TransformData(type, data, fieldsToExtract) ==
    IF data.kind = "array"
    THEN [n \in 1..Len(data.value) |-> TransformOne(type, data.value[n], fieldsToExtract)]
    ELSE <<TransformOne(type, data.value[1], fieldsToExtract)>>

\* ------------------------------------------------------ resource services
Method(service, name) == [service |-> service, name |-> name]
NoMethod == Method("", "")
CmsPageMethods == {Method("CmsPageService", n) : n \in {"getMany", "getById"}}
AbstractProductMethods ==
    {Method("AbstractProductService", n) :
        n \in {"getById", "getPrices", "getAvailabilities", "getRelatedProducts", "getImages",
               "getTaxSets", "getReviews", "getReview", "createReview"}}
ServiceMethods == CmsPageMethods \cup AbstractProductMethods

\* the node parameters of one item that the services read
NoParams ==
    [baseUrl |-> GoodUrl, authentication |-> <<"accessToken">>, itemIndex |-> 0,
     rawResponse |-> FALSE, fieldsToExtract |-> <<>>, include |-> <<>>,
     pageSize |-> 0, pageNumber |-> 0,
     cmsPageId |-> <<"imprint">>, abstractProductId |-> <<"001">>, productReviewId |-> <<"21">>,
     rating |-> 5, nickname |-> <<"Test User">>, summary |-> <<"Test Summary">>,
     description |-> <<"Test Description">>]
ItemParams(itemIndex) ==
    { [NoParams EXCEPT !.itemIndex = itemIndex, !.rawResponse = raw, !.fieldsToExtract = fields,
                       !.include = include, !.pageSize = page[1], !.pageNumber = page[2]] :
        raw \in BOOLEAN,
        fields \in {<<>>, <<"id", ",", " ", "name">>},
        include \in {<<>>, <<"abstract-product-prices">>},
        page \in {<<0, 0>>, <<10, 2>>} }

\* values of additionalFields.fieldsToExtract
FieldLists ==
    { <<>>, <<"name", ",", "url">>, <<"id", ",", " ", "name">>, <<"name", ",", "missing">>,
      <<"links">>, <<"_raw", ",", "id">>, <<" ", "type", " ">>, <<"missing">>, <<",">> }
FieldParams ==
    { [NoParams EXCEPT !.rawResponse = raw, !.fieldsToExtract = fields] :
        raw \in BOOLEAN, fields \in FieldLists }

\* the resource type a method reads, which selects its transform
TypeOf(method) ==
    IF method.service = "CmsPageService" THEN "cms-pages"
    ELSE IF method.name \in {"getById", "getRelatedProducts"} THEN "abstract-products"
    ELSE IF method.name = "getPrices" THEN "abstract-product-prices"
    ELSE IF method.name = "getAvailabilities" THEN "abstract-product-availabilities"
    ELSE IF method.name = "getImages" THEN "abstract-product-image-sets"
    ELSE IF method.name = "getTaxSets" THEN "product-tax-sets"
    ELSE "product-reviews"
\* the methods whose transform maps over an array of resources
MapsArrays(method) ==
    \/ method.service = "CmsPageService"
    \/ method.name \in {"getPrices", "getAvailabilities", "getRelatedProducts", "getImages",
                        "getTaxSets", "getReviews"}
\* setEndpoint(...)
EndpointOf(method, params) ==
    IF method.service = "CmsPageService"
    THEN IF method.name = "getMany" THEN <<"cms-pages">>
         ELSE <<"cms-pages", "/">> \o encodeURIComponent(params.cmsPageId)
    ELSE LET product == <<"abstract-products", "/">> \o encodeURIComponent(params.abstractProductId)
         IN  IF method.name = "getById" THEN product
             ELSE IF method.name = "getPrices" THEN product \o <<"/", "abstract-product-prices">>
             ELSE IF method.name = "getAvailabilities"
                 THEN product \o <<"/", "abstract-product-availabilities">>
             ELSE IF method.name = "getRelatedProducts" THEN product \o <<"/", "related-products">>
             ELSE IF method.name = "getImages" THEN product \o <<"/", "abstract-product-image-sets">>
             ELSE IF method.name = "getTaxSets" THEN product \o <<"/", "product-tax-sets">>
             ELSE IF method.name = "getReview"
                 THEN product \o <<"/", "product-reviews", "/">>
                              \o encodeURIComponent(params.productReviewId)
             ELSE product \o <<"/", "product-reviews">>
\* new SprykerRequestBuilder(baseUrl).setEndpoint(..)[.addInclude(..)][.addPagination(..)].build()
UrlOf(method, params) ==
    LET base == setEndpoint(NewBuilder(params.baseUrl), EndpointOf(method, params))
        included == IF method.name = "createReview" THEN base ELSE addInclude(base, params.include)
        paged == IF method.name \in {"getMany", "getReviews"}
                 THEN addPagination(included, params.pageSize, params.pageNumber)
                 ELSE included
    IN  build(paged)
\* createReview's requestBody
ReviewBody(params) ==
    [data |-> [type |-> "product-reviews",
               attributes |-> [rating |-> params.rating, nickname |-> params.nickname,
                               summary |-> params.summary, description |-> params.description]]]
\* the arguments a method passes to createSprykerRequest after `this.context`
RequestArgs(method, params) ==
    IF method.service = "CmsPageService"
    THEN <<Str(UrlOf(method, params)), Num(params.itemIndex)>>
    ELSE IF method.name = "createReview"
    THEN <<Str(UrlOf(method, params)), Str(params.authentication), Num(params.itemIndex),
           Str(<<"POST">>), Obj(ReviewBody(params))>>
    ELSE <<Str(UrlOf(method, params)), Str(params.authentication), Num(params.itemIndex)>>

NoApiResponse == [data |-> Absent, errors |-> Absent]
\* what a service method or the factory settled with
NoOutcome == [ok |-> FALSE, records |-> <<>>, message |-> <<>>]
Records(records) == [ok |-> TRUE, records |-> records, message |-> <<>>]
Thrown(message) == [ok |-> FALSE, records |-> <<>>, message |-> message]
\* RecordsOf without the fallback for a response that has no data
RecordsOfNoFallback(method, params, resolved) ==
    IF params.rawResponse THEN <<[json |-> resolved]>>
    ELSE IF resolved.data.kind # "absent"
    THEN IF MapsArrays(method)
         THEN TransformData(TypeOf(method), resolved.data, params.fieldsToExtract)
         ELSE <<TransformOne(TypeOf(method), resolved.data.value[1], params.fieldsToExtract)>>
    ELSE <<>>

\* RecordsOf that looks at the data before the raw-response flag
RecordsOfDataFirst(method, params, resolved) ==
    IF resolved.data.kind # "absent"
    THEN IF MapsArrays(method)
         THEN TransformData(TypeOf(method), resolved.data, params.fieldsToExtract)
         ELSE <<TransformOne(TypeOf(method), resolved.data.value[1], params.fieldsToExtract)>>
    ELSE <<[json |-> resolved]>>

\* the records a method returns when executeSprykerRequest resolved
RecordsOf(method, params, resolved) ==
    IF params.rawResponse THEN <<[json |-> resolved]>>
    ELSE IF resolved.data.kind # "absent"
    THEN IF MapsArrays(method)
         THEN TransformData(TypeOf(method), resolved.data, params.fieldsToExtract)
         ELSE <<TransformOne(TypeOf(method), resolved.data.value[1], params.fieldsToExtract)>>
    ELSE <<[json |-> resolved]>>

\* ------------------------------------------------------------ SprykerLogger
\* SprykerLogger.bufferSize
bufferSize == 10
\* the singleton after its construction; ids counts the request ids generated
NewLogger == [isEnabled |-> FALSE, logBuffer |-> <<>>, file |-> <<>>, ids |-> 0]
Redacted == <<"[REDACTED]">>
\* `Bearer ${accessToken}`
BearerOf(accessToken) == <<"Bearer ", accessToken>>
\* sanitizeHeaders that copies the headers as they are
sanitizeHeadersVerbatim(headers) == [h \in DOMAIN headers |-> headers[h]]
\* sanitizeHeaders: a copy in which a truthy Authorization / authorization is replaced
sanitizeHeaders(headers) ==
    [h \in DOMAIN headers |->
        IF h \in {"Authorization", "authorization"} /\ headers[h] # <<>>
        THEN Redacted ELSE headers[h]]
NoLogResponse == [statusCode |-> 0, body |-> <<>>]
NoLogError == [message |-> <<>>, code |-> "", statusCode |-> 0]
\* flushBuffer: the buffered entries are appended to the log file
flushBuffer(lg) ==
    IF lg.logBuffer = <<>> THEN lg
    ELSE [lg EXCEPT !.file = @ \o lg.logBuffer, !.logBuffer = <<>>]
\* addToBuffer: push, and flush a full buffer
addToBuffer(lg, entry) ==
    LET pushed == [lg EXCEPT !.logBuffer = Append(@, entry)]
    IN  IF Len(pushed.logBuffer) >= bufferSize THEN flushBuffer(pushed) ELSE pushed
\* the request id logRequest returns (0: the empty string)
RequestIdOf(lg) == IF lg.isEnabled THEN lg.ids + 1 ELSE 0
\* logRequest(requestOptions, operation, resource, context)
logRequest(lg, requestOptions) ==
    IF ~lg.isEnabled THEN lg
    ELSE addToBuffer([lg EXCEPT !.ids = @ + 1],
                     [requestId |-> lg.ids + 1,
                      request |-> [method |-> IF requestOptions.method # "" THEN requestOptions.method ELSE "GET",
                                   url |-> requestOptions.uri,
                                   headers |-> sanitizeHeaders(requestOptions.headers),
                                   body |-> requestOptions.body],
                      response |-> NoLogResponse,
                      error |-> NoLogError])
\* the buffered entry of requestId gets a response and an error; a flushed entry is not found
InBuffer(lg, requestId, res, err) ==
    [lg EXCEPT !.logBuffer =
        [n \in 1..Len(lg.logBuffer) |->
            IF lg.logBuffer[n].requestId = requestId
            THEN [lg.logBuffer[n] EXCEPT !.response = res, !.error = IF err = NoLogError THEN @ ELSE err]
            ELSE lg.logBuffer[n]]]
\* logResponse(requestId, response, responseTime, 200, {})
logResponse(lg, requestId, body) ==
    IF ~lg.isEnabled \/ requestId = 0 THEN lg
    ELSE InBuffer(lg, requestId, [statusCode |-> 200, body |-> body], NoLogError)
\* logError(requestId, error, responseTime)
logError(lg, requestId, error) ==
    IF ~lg.isEnabled \/ requestId = 0 THEN lg
    ELSE InBuffer(lg, requestId,
                  [statusCode |-> IF error.statusCode # 0 THEN error.statusCode ELSE 500, body |-> <<>>],
                  [message |-> IF error.message # <<>> THEN error.message ELSE <<"Unknown error">>,
                   code |-> error.code, statusCode |-> error.statusCode])

\* ------------------------------------- executeSprykerRequestWithLogging
\* the options before a request is made
NoRequest == [method |-> "", uri |-> <<>>, headers |-> EmptyMap, body |-> <<>>]
\* what createSprykerRequestWithLogging resolves with for a GET and for a POST with a body
GetRequest ==
    [method |-> "GET", uri |-> <<"https://glue.eu.spryker.local", "/", "cms-pages">>,
     headers |-> [h \in {"Accept", "Accept-Language", "User-Agent", "Authorization"} |->
                    IF h = "Accept" THEN <<"application/json">>
                    ELSE IF h = "Accept-Language" THEN <<"en">>
                    ELSE IF h = "User-Agent" THEN <<"n8n-spryker-node/1.0.0">>
                    ELSE BearerOf("access-1")],
     body |-> <<>>]
PostRequest ==
    [method |-> "POST", uri |-> <<"https://glue.eu.spryker.local", "/", "abstract-product-reviews">>,
     headers |-> MapSet(GetRequest.headers, "Content-Type", <<"application/json">>),
     body |-> <<"review">>]
\* options with both spellings of the header and no others
TwoTokenRequest ==
    [method |-> "POST", uri |-> <<"https://api.spryker.com", "/", "products">>,
     headers |-> [h \in {"Authorization", "authorization"} |->
                    IF h = "Authorization" THEN BearerOf("secret-token") ELSE BearerOf("another-secret")],
     body |-> <<>>]
ExecutedRequests == {GetRequest, PostRequest}
LoggedRequests == {GetRequest, TwoTokenRequest}
LogLevels == {"basic", "detailed"}
\* the node parameters enableLogging and loggingOptions
LoggingParams == [enableLogging : BOOLEAN, logLevel : LogLevels, includeRequestBody : BOOLEAN]
RetryLimits == {0, 1, 2}
\* createLoggingOptions: the copy of the options that is handed to the logger
createLoggingOptions(requestOptions, loggingOpts) ==
    LET copied == [h \in DOMAIN requestOptions.headers |->
                      IF h \in {"Authorization", "authorization"} /\ requestOptions.headers[h] # <<>>
                      THEN Redacted ELSE requestOptions.headers[h]]
        picked(h) == IF h \in DOMAIN copied THEN copied[h] ELSE <<>>
    IN  [requestOptions EXCEPT
            !.headers = IF loggingOpts.logLevel = "basic"
                        THEN [h \in {"Content-Type", "Accept"} |-> picked(h)]
                        ELSE copied,
            !.body = IF ~loggingOpts.includeRequestBody /\ requestOptions.body # <<>>
                     THEN <<"[BODY_EXCLUDED]">> ELSE requestOptions.body]
\* formatSprykerError
formatSprykerError(error) ==
    IF error.statusCode # 0 THEN
        IF error.statusCode = 400
            THEN <<"Bad request: ">> \o (IF error.message # <<>> THEN error.message ELSE <<"Invalid request parameters">>)
        ELSE IF error.statusCode = 401 THEN <<"Authentication failed: Invalid credentials or expired token">>
        ELSE IF error.statusCode = 403 THEN <<"Access forbidden: Insufficient permissions for this resource">>
        ELSE IF error.statusCode = 404 THEN <<"Resource not found: The requested resource does not exist">>
        ELSE IF error.statusCode = 422
            THEN <<"Validation error: ">> \o (IF error.message # <<>> THEN error.message ELSE <<"Request data is invalid">>)
        ELSE IF error.statusCode = 429 THEN <<"Rate limit exceeded: Too many requests, please try again later">>
        ELSE IF error.statusCode = 500 THEN <<"Spryker API server error: Please try again later">>
        ELSE IF error.statusCode \in {502, 503, 504}
            THEN <<"Spryker API is temporarily unavailable: Please try again later">>
        ELSE <<"Spryker API error (", ToString(error.statusCode), "): ">> \o error.message
    ELSE IF error.code # "" THEN
        IF error.code = "ECONNREFUSED"
            THEN <<"Cannot connect to Spryker API: Please check your baseUrl and network connection">>
        ELSE IF error.code = "ETIMEDOUT" THEN <<"Request timeout: Spryker API is not responding">>
        ELSE IF error.code = "ENOTFOUND" THEN <<"DNS resolution failed: Please check your baseUrl">>
        ELSE IF error.code = "ECONNRESET" THEN <<"Connection was reset: Please try again">>
        ELSE <<"Network error (", error.code, "): ">> \o error.message
    ELSE <<"Spryker API request failed: ">> \o (IF error.message # <<>> THEN error.message ELSE <<"Unknown error">>)
\* a failure that is retried whatever it is, while attempts are left
RetriedAny(error, attempt_, maxRetries) == attempt_ <= maxRetries
\* the catch block goes on with the next attempt
Retried(error, attempt_, maxRetries) ==
    \/ error.statusCode = 401 /\ attempt_ <= maxRetries
    \/ error.statusCode = 429 /\ attempt_ <= maxRetries
    \/ error.code = "ETIMEDOUT" /\ attempt_ <= maxRetries
    \/ error.code = "ECONNRESET" /\ attempt_ <= maxRetries
\* 2^n
RECURSIVE Pow2(_)
Pow2(n) == IF n = 0 THEN 1 ELSE 2 * Pow2(n - 1)
\* the delay (ms) before the next attempt; no retry-after header in the answer
RetryDelay(error, attempt_) ==
    IF error.statusCode = 429 THEN Pow2(attempt_) * 1000
    ELSE IF error.code = "ETIMEDOUT" THEN Pow2(attempt_ - 1) * 1000
    ELSE 1000 * attempt_
\* the locals of executeSprykerRequestWithLogging before its first call
NoExecution ==
    [pc |-> "idle", n |-> 0, attempt |-> 1, maxRetries |-> 2, calls |-> 0,
     lastError |-> PlainError(<<>>), outcome |-> NoResponse, requestId |-> 0,
     params |-> [enableLogging |-> FALSE, logLevel |-> "detailed", includeRequestBody |-> TRUE],
     delays |-> <<>>]

\* ------------------------------------------------------ SprykerResourceFactory
Resources == {"cmsPages", "abstractProducts", "customers"}
Operations ==
    {"getAll", "get", "getPrices", "getAvailabilities", "getRelatedProducts", "getImages",
     "getTaxSets", "getReviews", "getReview", "createReview", "delete"}
\* executeOperation(resource, operation): the method it calls, or the error it throws
Route(res, op) ==
    IF res = "cmsPages"
    THEN IF op = "getAll" THEN [method |-> Method("CmsPageService", "getMany"), message |-> <<>>]
         ELSE IF op = "get" THEN [method |-> Method("CmsPageService", "getById"), message |-> <<>>]
         ELSE [method |-> NoMethod, message |-> <<"Unsupported CMS page operation: ", op>>]
    ELSE IF res = "abstractProducts"
    THEN IF op = "get"
         THEN [method |-> Method("AbstractProductService", "getById"), message |-> <<>>]
         ELSE [method |-> NoMethod, message |-> <<"Unsupported abstract product operation: ", op>>]
    ELSE [method |-> NoMethod, message |-> <<"Unsupported resource: ", res>>]

\* ------------------------------------------------------------------ Init
Init ==
    /\ tokenCache = EmptyMap
    /\ now = 100000
    /\ ticks = 0
    /\ faults = 0
    /\ pc = [c \in Calls |-> "idle"]
    /\ attempt = [c \in Calls |-> 1]
    /\ inv = [c \in Calls |-> 1]
    /\ ckey = [c \in Calls |-> "k1"]
    /\ creds = [c \in Calls |-> UserCredentials("k1")]
    /\ result = [c \in Calls |-> NoResult]
    /\ nIssue = [c \in Calls |-> 0]
    /\ nRefresh = [c \in Calls |-> 0]
    /\ waits = [c \in Calls |-> <<>>]
    /\ wakeAt = [c \in Calls |-> 0]
    /\ xpc = [c \in Calls |-> "idle"]
    /\ hdr = [c \in Calls |-> NoToken]
    /\ nSend = [c \in Calls |-> 0]
    /\ xres = [c \in Calls |-> NoResponse]
    /\ retried = [c \in Calls |-> FALSE]
    /\ lastWrite = EmptyMap
    /\ adminResult = NoAdminResult
    /\ npc = "idle"
    /\ items = 0
    /\ idx = 0
    /\ continueOnFail = FALSE
    /\ resource = "cmsPages"
    /\ operation = "getAll"
    /\ withSummary = FALSE
    /\ returnData = <<>>
    /\ thrown = <<>>
    /\ dispatched = <<>>
    /\ outcomes = <<>>
    /\ spc = "idle"
    /\ smethod = <<>>
    /\ sparams = NoParams
    /\ sargs = <<>>
    /\ options = NoOptions
    /\ sresponse = NoApiResponse
    /\ sres = NoOutcome
    /\ builder = NoBuilder
    /\ builderClass = "none"
    /\ history = <<>>
    /\ built = <<>>
    /\ logger = NewLogger
    /\ request = NoRequest
    /\ lx = NoExecution

\* ------------------------------------------------- getValidAccessToken
\* a loop body that never tries the refresh token of a stale entry
TryAttemptWithoutRefresh(c, a, t) ==
    LET has == ckey[c] \in DOMAIN tokenCache
        cachedToken == tokenCache[ckey[c]]
    IN  /\ attempt' = [attempt EXCEPT ![c] = a]
        /\ wakeAt' = [wakeAt EXCEPT ![c] = 0]
        /\ IF has /\ isTokenValid(cachedToken, t)
           THEN /\ pc' = [pc EXCEPT ![c] = "done"]
                /\ result' = [result EXCEPT ![c] = Success(cachedToken.accessToken, "cache")]
                /\ UNCHANGED <<nIssue, nRefresh>>
           ELSE /\ pc' = [pc EXCEPT ![c] = "issuing"]
                /\ nIssue' = [nIssue EXCEPT ![c] = @ + 1]
                /\ UNCHANGED <<result, nRefresh>>

\* One pass of the retry loop body up to its first await, as attempt a at time t:
\* cache hit, or a refresh request, or a token-issuance request.
TryAttempt(c, a, t) ==
    LET has == ckey[c] \in DOMAIN tokenCache
        cachedToken == tokenCache[ckey[c]]
    IN  /\ attempt' = [attempt EXCEPT ![c] = a]
        /\ wakeAt' = [wakeAt EXCEPT ![c] = 0]
        /\ IF has /\ isTokenValid(cachedToken, t)
           THEN /\ pc' = [pc EXCEPT ![c] = "done"]
                /\ result' = [result EXCEPT ![c] = Success(cachedToken.accessToken, "cache")]
                /\ UNCHANGED <<nIssue, nRefresh>>
           ELSE IF has /\ cachedToken.refreshToken # NoToken /\ shouldTryRefresh(cachedToken, t)
           THEN /\ pc' = [pc EXCEPT ![c] = "refreshing"]
                /\ nRefresh' = [nRefresh EXCEPT ![c] = @ + 1]
                /\ UNCHANGED <<result, nIssue>>
           ELSE /\ pc' = [pc EXCEPT ![c] = "issuing"]
                /\ nIssue' = [nIssue EXCEPT ![c] = @ + 1]
                /\ UNCHANGED <<result, nRefresh>>

\* the callers that have started and not finished
Finished(d) == xpc[d] = "done" \/ (xpc[d] = "plain" /\ pc[d] = "done")
Active == {d \in Calls : xpc[d] # "idle" /\ ~Finished(d)}

\* a caller invokes getValidAccessToken directly; it suspends on getCredentials,
\* which will resolve with `credentials`
StartGetTokenWith(c, credentials) ==
    /\ UNCHANGED <<nodeVars, serviceVars, utilVars>>
    /\ xpc[c] = "idle"
    \* callers are interchangeable: they start in index order
    /\ \A d \in Calls : d < c => xpc[d] # "idle"
    /\ xpc' = [xpc EXCEPT ![c] = "plain"]
    /\ pc' = [pc EXCEPT ![c] = "creds"]
    /\ creds' = [creds EXCEPT ![c] = credentials]
    /\ ckey' = [ckey EXCEPT ![c] = getCacheKey(credentials)]
    /\ UNCHANGED <<tokenCache, now, ticks, faults, attempt, inv, result, nIssue, nRefresh,
                   waits, wakeAt, hdr, nSend, xres, retried, lastWrite, adminVars>>

\* the same with the Username & Password credentials of user k
StartGetToken(c, k) == StartGetTokenWith(c, UserCredentials(k))

\* getCredentials resolved: getValidatedCredentials throws out of
\* getValidAccessToken, or the first pass of the loop runs
CredsReturn(c) ==
    /\ pc[c] = "creds"
    /\ IF CredentialsErrorMessage(creds[c]) = <<>>
       THEN TryAttempt(c, 1, now)
       ELSE /\ pc' = [pc EXCEPT ![c] = "done"]
            /\ result' = [result EXCEPT ![c] = Failure(CredentialsErrorMessage(creds[c]))]
            /\ UNCHANGED <<attempt, wakeAt, nIssue, nRefresh>>
    /\ UNCHANGED <<tokenCache, now, ticks, faults, inv, ckey, creds, waits, execVars, lastWrite, adminVars>>

\* the previously cached access token is returned instead of the new one
StoreAndReturnStale(c, response, via) ==
    LET entry == NewCacheEntry(response, now)
        stale == IF ckey[c] \in DOMAIN tokenCache
                 THEN tokenCache[ckey[c]].accessToken ELSE response.accessToken
    IN  /\ tokenCache' = MapSet(tokenCache, ckey[c], entry)
        /\ lastWrite' = MapSet(lastWrite, ckey[c], entry)
        /\ pc' = [pc EXCEPT ![c] = "done"]
        /\ result' = [result EXCEPT ![c] = Success(stale, via)]

\* the existing entry is updated in place and keeps its old refresh token
StoreAndReturnInPlace(c, response, via) ==
    LET fresh == NewCacheEntry(response, now)
        entry == IF ckey[c] \in DOMAIN tokenCache
                 THEN [fresh EXCEPT !.refreshToken = tokenCache[ckey[c]].refreshToken]
                 ELSE fresh
    IN  /\ tokenCache' = MapSet(tokenCache, ckey[c], entry)
        /\ lastWrite' = MapSet(lastWrite, ckey[c], entry)
        /\ pc' = [pc EXCEPT ![c] = "done"]
        /\ result' = [result EXCEPT ![c] = Success(response.accessToken, via)]

\* the cache is replaced by a map that holds the new entry only
StoreAndReturnAlone(c, response, via) ==
    LET entry == NewCacheEntry(response, now)
    IN  /\ tokenCache' = MapSet(EmptyMap, ckey[c], entry)
        /\ lastWrite' = MapSet(lastWrite, ckey[c], entry)
        /\ pc' = [pc EXCEPT ![c] = "done"]
        /\ result' = [result EXCEPT ![c] = Success(response.accessToken, via)]

\* tokenCache.set(cacheKey, {...}) and return of the access token
StoreAndReturn(c, response, via) ==
    LET entry == NewCacheEntry(response, now)
    IN  /\ tokenCache' = MapSet(tokenCache, ckey[c], entry)
        /\ lastWrite' = MapSet(lastWrite, ckey[c], entry)
        /\ pc' = [pc EXCEPT ![c] = "done"]
        /\ result' = [result EXCEPT ![c] = Success(response.accessToken, via)]

\* the refresh error escapes to the catch of the retry loop
RefreshFailedRethrow(c) ==
    /\ faults < MaxFaults
    /\ faults' = faults + 1
    /\ tokenCache' = MapDelete(tokenCache, ckey[c])
    /\ IF attempt[c] = MAX_RETRY_ATTEMPTS
       THEN /\ pc' = [pc EXCEPT ![c] = "done"]
            /\ result' = [result EXCEPT ![c] =
                   Failure(ExhaustedMessage(PlainError(<<"Refresh token is invalid or expired">>)))]
            /\ UNCHANGED <<waits, wakeAt>>
       ELSE /\ pc' = [pc EXCEPT ![c] = "delay"]
            /\ waits' = [waits EXCEPT ![c] = Append(@, BackoffDelay(attempt[c]))]
            /\ wakeAt' = [wakeAt EXCEPT ![c] = now + BackoffDelay(attempt[c])]
            /\ UNCHANGED result
    /\ UNCHANGED <<now, ticks, attempt, inv, ckey, creds, nIssue, nRefresh, execVars, lastWrite, adminVars>>

\* refreshAccessToken threw: its catch deletes the entry, the catch in the loop
\* deletes it again, and the loop body goes on to getNewAccessToken
RefreshFailed(c) ==
    /\ faults < MaxFaults
    /\ faults' = faults + 1
    /\ tokenCache' = MapDelete(tokenCache, ckey[c])
    /\ pc' = [pc EXCEPT ![c] = "issuing"]
    /\ nIssue' = [nIssue EXCEPT ![c] = @ + 1]
    /\ UNCHANGED <<now, ticks, attempt, inv, ckey, creds, result, nRefresh, waits, wakeAt,
                   execVars, lastWrite, adminVars>>

\* the refresh request resolved with a body
RefreshResponse(c) ==
    /\ pc[c] = "refreshing"
    /\ \E response \in TokenResponses(RequestId(c, "refresh")) :
         IF isValidTokenResponse(response)
         THEN /\ StoreAndReturn(c, response, "refresh")
              /\ UNCHANGED <<now, ticks, faults, attempt, inv, ckey, creds, nIssue, nRefresh, waits,
                             wakeAt, execVars, adminVars>>
         ELSE RefreshFailed(c)

\* the refresh request rejected
RefreshError(c) ==
    /\ pc[c] = "refreshing"
    /\ \E error \in TransportErrors : RefreshFailed(c)

\* getNewAccessToken threw `error` into its catch: rethrown with a specific message
\* into the catch of the retry loop
IssueFailed(c, error) ==
    LET wrapped == PlainError(NewTokenErrorMessage(error))
    IN  /\ faults < MaxFaults
        /\ faults' = faults + 1
        /\ IF attempt[c] = MAX_RETRY_ATTEMPTS
           THEN /\ pc' = [pc EXCEPT ![c] = "done"]
                /\ result' = [result EXCEPT ![c] = Failure(ExhaustedMessage(wrapped))]
                /\ UNCHANGED <<waits, wakeAt>>
           ELSE /\ pc' = [pc EXCEPT ![c] = "delay"]
                /\ waits' = [waits EXCEPT ![c] = Append(@, BackoffDelay(attempt[c]))]
                /\ wakeAt' = [wakeAt EXCEPT ![c] = now + BackoffDelay(attempt[c])]
                /\ UNCHANGED result
        /\ UNCHANGED <<tokenCache, now, ticks, attempt, inv, ckey, creds, nIssue, nRefresh,
                       execVars, lastWrite, adminVars>>

\* the token-issuance request resolved with a body
IssueResponse(c) ==
    /\ pc[c] = "issuing"
    /\ \E response \in TokenResponses(RequestId(c, "issue")) :
         IF isValidTokenResponse(response)
         THEN /\ StoreAndReturn(c, response, "issue")
              /\ UNCHANGED <<now, ticks, faults, attempt, inv, ckey, creds, nIssue, nRefresh, waits,
                             wakeAt, execVars, adminVars>>
         ELSE IssueFailed(c, PlainError(<<"Invalid token response format from Spryker API">>))

\* the token-issuance request rejected
IssueError(c) ==
    /\ pc[c] = "issuing"
    /\ \E error \in TransportErrors : IssueFailed(c, error)

\* the backoff timer fired: next pass of the loop
EndDelay(c) ==
    /\ pc[c] = "delay"
    /\ now' = IF now < wakeAt[c] THEN wakeAt[c] ELSE now
    /\ TryAttempt(c, attempt[c] + 1, now')
    /\ UNCHANGED <<tokenCache, ticks, faults, inv, ckey, creds, waits, execVars, lastWrite, adminVars>>

\* the wall clock advances
Tick ==
    /\ UNCHANGED <<nodeVars, serviceVars, utilVars>>
    /\ ticks < MaxTicks
    /\ \E step \in TickSteps : now' = now + step
    /\ ticks' = ticks + 1
    /\ UNCHANGED <<tokenCache, faults, authVars, execVars, lastWrite, adminVars>>

\* ------------------------------------------- administrative operations
clearTokenCache ==
    /\ UNCHANGED <<nodeVars, serviceVars, utilVars>>
    /\ tokenCache' = EmptyMap
    /\ adminResult' = [NoAdminResult EXCEPT !.op = "clearTokenCache"]
    /\ UNCHANGED <<now, ticks, faults, authVars, execVars, lastWrite>>

clearUserTokenCache(k) ==
    /\ UNCHANGED <<nodeVars, serviceVars, utilVars>>
    /\ tokenCache' = MapDelete(tokenCache, k)
    /\ adminResult' = [NoAdminResult EXCEPT !.op = "clearUserTokenCache"]
    /\ UNCHANGED <<now, ticks, faults, authVars, execVars, lastWrite>>

ValidKeys(cache, t) == {k \in DOMAIN cache : t < cache[k].expiresAt}
ExpiredKeys(cache, t) == {k \in DOMAIN cache : t >= cache[k].expiresAt}

getCacheStats ==
    /\ UNCHANGED <<nodeVars, serviceVars, utilVars>>
    /\ adminResult' = [op |-> "getCacheStats",
                       total |-> Cardinality(DOMAIN tokenCache),
                       valid |-> Cardinality(ValidKeys(tokenCache, now)),
                       expired |-> Cardinality(DOMAIN tokenCache \ ValidKeys(tokenCache, now)),
                       removed |-> 0]
    /\ UNCHANGED <<tokenCache, now, ticks, faults, authVars, execVars, lastWrite>>

\* a purge that spares the entries expiring at this very instant
cleanupExpiredTokensLate ==
    /\ UNCHANGED <<nodeVars, serviceVars, utilVars>>
    /\ tokenCache' = [k \in {x \in DOMAIN tokenCache : now <= tokenCache[x].expiresAt} |-> tokenCache[k]]
    /\ adminResult' = [NoAdminResult EXCEPT !.op = "cleanupExpiredTokens",
                                            !.removed = Cardinality({x \in DOMAIN tokenCache :
                                                                        now > tokenCache[x].expiresAt})]
    /\ UNCHANGED <<now, ticks, faults, authVars, execVars, lastWrite>>

cleanupExpiredTokens ==
    /\ UNCHANGED <<nodeVars, serviceVars, utilVars>>
    /\ tokenCache' = [k \in (DOMAIN tokenCache) \ ExpiredKeys(tokenCache, now) |-> tokenCache[k]]
    /\ adminResult' = [NoAdminResult EXCEPT !.op = "cleanupExpiredTokens",
                                            !.removed = Cardinality(ExpiredKeys(tokenCache, now))]
    /\ UNCHANGED <<now, ticks, faults, authVars, execVars, lastWrite>>

\* --------------------------- createSprykerRequest / executeSprykerRequest
\* a resource service builds a request: createSprykerRequest suspends on
\* getValidAccessToken, which suspends on getCredentials
StartRequestWith(c, credentials) ==
    /\ UNCHANGED <<nodeVars, serviceVars, utilVars>>
    /\ xpc[c] = "idle"
    /\ \A d \in Calls : d < c => xpc[d] # "idle"
    /\ xpc' = [xpc EXCEPT ![c] = "create"]
    /\ pc' = [pc EXCEPT ![c] = "creds"]
    /\ creds' = [creds EXCEPT ![c] = credentials]
    /\ ckey' = [ckey EXCEPT ![c] = getCacheKey(credentials)]
    /\ UNCHANGED <<tokenCache, now, ticks, faults, attempt, inv, result, nIssue, nRefresh,
                   waits, wakeAt, hdr, nSend, xres, retried, lastWrite, adminVars>>

\* the same with the Username & Password credentials of user k
StartRequest(c, k) == StartRequestWith(c, UserCredentials(k))

\* a createSprykerRequest that returns the options also when no token was obtained
CreateReturnWithoutToken(c) ==
    /\ xpc[c] = "create"
    /\ pc[c] = "done"
    /\ hdr' = [hdr EXCEPT ![c] = IF result[c].state = "ok" THEN result[c].token ELSE @]
    /\ nSend' = [nSend EXCEPT ![c] = 1]
    /\ xpc' = [xpc EXCEPT ![c] = "send1"]
    /\ UNCHANGED xres
    /\ UNCHANGED <<tokenCache, now, ticks, faults, authVars, retried, lastWrite, adminVars>>

\* getValidAccessToken settled inside createSprykerRequest; on success the service
\* passes the options to executeSprykerRequest, which sends the request
CreateReturn(c) ==
    /\ xpc[c] = "create"
    /\ pc[c] = "done"
    /\ IF result[c].state = "ok"
       THEN /\ hdr' = [hdr EXCEPT ![c] = result[c].token]
            /\ nSend' = [nSend EXCEPT ![c] = 1]
            /\ xpc' = [xpc EXCEPT ![c] = "send1"]
            /\ UNCHANGED xres
       ELSE /\ xres' = [xres EXCEPT ![c] =
                           RequestFailure(<<"Authentication failed: ">> \o result[c].message)]
            /\ xpc' = [xpc EXCEPT ![c] = "done"]
            /\ UNCHANGED <<hdr, nSend>>
    /\ UNCHANGED <<tokenCache, now, ticks, faults, authVars, retried, lastWrite, adminVars>>

\* the first transport call resolved
TransportOk(c) ==
    /\ xpc[c] = "send1"
    /\ xres' = [xres EXCEPT ![c] = Response(ResponseBody(c, nSend[c]))]
    /\ xpc' = [xpc EXCEPT ![c] = "done"]
    /\ UNCHANGED <<tokenCache, now, ticks, faults, authVars, hdr, nSend, retried, lastWrite, adminVars>>

\* the 401 branch: the cache is cleared and a second getValidAccessToken is started
Reauthenticate(c) ==
    /\ tokenCache' = EmptyMap
    /\ retried' = [retried EXCEPT ![c] = TRUE]
    /\ xpc' = [xpc EXCEPT ![c] = "reauth"]
    /\ inv' = [inv EXCEPT ![c] = @ + 1]
    /\ pc' = [pc EXCEPT ![c] = "creds"]
    /\ attempt' = [attempt EXCEPT ![c] = 1]
    /\ result' = [result EXCEPT ![c] = NoResult]
    /\ nIssue' = [nIssue EXCEPT ![c] = 0]
    /\ nRefresh' = [nRefresh EXCEPT ![c] = 0]
    /\ waits' = [waits EXCEPT ![c] = <<>>]
    /\ UNCHANGED <<now, ticks, ckey, creds, wakeAt, hdr, nSend, xres, lastWrite, adminVars>>

\* the first transport call rejected with one of `errors`
TransportFailWith(c, errors) ==
    /\ xpc[c] = "send1"
    /\ faults < MaxFaults
    /\ faults' = faults + 1
    /\ \E error \in errors :
         IF error.statusCode = 401
         THEN Reauthenticate(c)
         ELSE /\ xres' = [xres EXCEPT ![c] = RequestFailure(RequestErrorMessage(error))]
              /\ xpc' = [xpc EXCEPT ![c] = "done"]
              /\ UNCHANGED <<tokenCache, now, ticks, authVars, hdr, nSend, retried,
                             lastWrite, adminVars>>

\* the first transport call rejected: unauthorized or timed out
TransportFail(c) == TransportFailWith(c, TransportErrors)

\* the first transport call rejected: any status or network code
ResourceFail(c) == TransportFailWith(c, ResourceErrors)

RetryFailedMessage(msg) == <<"Spryker API authentication ", "failed after retry", ": ">> \o msg

\* getValidAccessToken settled inside the 401 branch
ReauthReturn(c) ==
    /\ xpc[c] = "reauth"
    /\ pc[c] = "done"
    /\ IF result[c].state = "ok"
       THEN /\ hdr' = [hdr EXCEPT ![c] = result[c].token]
            /\ nSend' = [nSend EXCEPT ![c] = @ + 1]
            /\ xpc' = [xpc EXCEPT ![c] = "send2"]
            /\ UNCHANGED xres
       ELSE /\ xres' = [xres EXCEPT ![c] = RequestFailure(RetryFailedMessage(result[c].message))]
            /\ xpc' = [xpc EXCEPT ![c] = "done"]
            /\ UNCHANGED <<hdr, nSend>>
    /\ UNCHANGED <<tokenCache, now, ticks, faults, authVars, retried, lastWrite, adminVars>>

\* the repeated transport call resolved
RetryOk(c) ==
    /\ xpc[c] = "send2"
    /\ xres' = [xres EXCEPT ![c] = Response(ResponseBody(c, nSend[c]))]
    /\ xpc' = [xpc EXCEPT ![c] = "done"]
    /\ UNCHANGED <<tokenCache, now, ticks, faults, authVars, hdr, nSend, retried, lastWrite, adminVars>>

\* a 401 on the repeated call starts another round of re-authentication
RetryFailAgain(c) ==
    /\ xpc[c] = "send2"
    /\ faults < MaxFaults
    /\ faults' = faults + 1
    /\ \E error \in TransportErrors :
         IF error.statusCode = 401
         THEN Reauthenticate(c)
         ELSE /\ xres' = [xres EXCEPT ![c] = RequestFailure(RetryFailedMessage(error.message))]
              /\ xpc' = [xpc EXCEPT ![c] = "done"]
              /\ UNCHANGED <<tokenCache, now, ticks, authVars, hdr, nSend, retried,
                             lastWrite, adminVars>>

\* the repeated transport call rejected
RetryFail(c) ==
    /\ xpc[c] = "send2"
    /\ faults < MaxFaults
    /\ faults' = faults + 1
    /\ \E error \in TransportErrors :
         xres' = [xres EXCEPT ![c] = RequestFailure(RetryFailedMessage(error.message))]
    /\ xpc' = [xpc EXCEPT ![c] = "done"]
    /\ UNCHANGED <<tokenCache, now, ticks, authVars, hdr, nSend, retried, lastWrite, adminVars>>

\* ------------------------------------------------------- specifications
AuthStep(c) ==
    /\ UNCHANGED <<nodeVars, serviceVars, utilVars>>
    /\ \/ CredsReturn(c)
       \/ RefreshResponse(c)
       \/ RefreshError(c)
       \/ IssueResponse(c)
       \/ IssueError(c)
       \/ EndDelay(c)

ExecStep(c) ==
    /\ UNCHANGED <<nodeVars, serviceVars, utilVars>>
    /\ \/ CreateReturn(c)
       \/ TransportOk(c)
       \/ TransportFail(c)
       \/ ReauthReturn(c)
       \/ RetryOk(c)
       \/ RetryFail(c)

AdminStep ==
    \/ clearTokenCache
    \/ \E k \in Keys : clearUserTokenCache(k)
    \/ getCacheStats
    \/ cleanupExpiredTokens

\* direct getValidAccessToken calls one after the other
StartAlone(c, k) == Active = {} /\ StartGetToken(c, k)

\* getValidAccessToken calls one after the other, the clock, and the administrative
\* operations at any moment
Next ==
    \/ \E c \in Calls : StartAlone(c, "k1")
    \/ \E c \in Calls : AuthStep(c)
    \/ Tick
    \/ AdminStep

Spec == Init /\ [][Next]_vars

\* resource requests through createSprykerRequest and executeSprykerRequest, one
\* item after the other as Spryker.execute awaits each item
StartRequestAlone(c, k) == Active = {} /\ StartRequest(c, k)

NextExec ==
    \/ \E c \in Calls, k \in Keys : StartRequestAlone(c, k)
    \/ \E c \in Calls : AuthStep(c)
    \/ \E c \in Calls : ExecStep(c)

SpecExec == Init /\ [][NextExec]_vars

\* resource requests of one user, one item after the other, with every way the
\* resource endpoint can fail
ExecStepAny(c) ==
    /\ UNCHANGED <<nodeVars, serviceVars, utilVars>>
    /\ \/ CreateReturn(c)
       \/ TransportOk(c)
       \/ ResourceFail(c)
       \/ ReauthReturn(c)
       \/ RetryOk(c)
       \/ RetryFail(c)

NextErrors ==
    \/ \E c \in Calls : StartRequestAlone(c, "k1")
    \/ \E c \in Calls : AuthStep(c)
    \/ \E c \in Calls : ExecStepAny(c)

SpecErrors == Init /\ [][NextErrors]_vars

\* resource requests, one item after the other, with whatever the credential store
\* holds
StartRequestWithAlone(c, credentials) == Active = {} /\ StartRequestWith(c, credentials)

NextCreds ==
    \/ \E c \in Calls, credentials \in Credentials : StartRequestWithAlone(c, credentials)
    \/ \E c \in Calls : AuthStep(c)
    \/ \E c \in Calls : ExecStep(c)

SpecCreds == Init /\ [][NextCreds]_vars

\* direct getValidAccessToken calls racing on the cache, nothing else touching it
NextRace ==
    \/ \E c \in Calls : StartGetToken(c, "k1")
    \/ \E c \in Calls : AuthStep(c)
    \/ Tick

SpecRace == Init /\ [][NextRace]_vars

\* getValidAccessToken calls for either key, one after another
NextKeys ==
    \/ \E c \in Calls, k \in Keys : StartAlone(c, k)
    \/ \E c \in Calls : AuthStep(c)
    \/ Tick
SpecKeys == Init /\ [][NextKeys]_vars

\* the credentials of user k1 with the password of the account and with another one
PasswordCredentials ==
    {UserCredentials("k1"), [UserCredentials("k1") EXCEPT !.password = "guess"]}
\* getValidAccessToken calls of user k1 with either password, one after another
NextPasswords ==
    \/ \E c \in Calls, credentials \in PasswordCredentials :
          Active = {} /\ StartGetTokenWith(c, credentials)
    \/ \E c \in Calls : AuthStep(c)
    \/ Tick
SpecPasswords == Init /\ [][NextPasswords]_vars

\* calls for either key one after another, the clock, and the purge of expired entries
NextCleanup ==
    \/ \E c \in Calls, k \in Keys : StartAlone(c, k)
    \/ \E c \in Calls : AuthStep(c)
    \/ Tick
    \/ cleanupExpiredTokens
SpecCleanup == Init /\ [][NextCleanup]_vars

\* the caller of a settled getValidAccessToken call makes the call again, as the
\* node does for its next item
CallAgain(c) ==
    /\ UNCHANGED <<nodeVars, serviceVars, utilVars>>
    /\ xpc[c] = "plain"
    /\ pc[c] = "done"
    /\ inv[c] < MaxInvocations
    /\ inv' = [inv EXCEPT ![c] = @ + 1]
    /\ pc' = [pc EXCEPT ![c] = "creds"]
    /\ attempt' = [attempt EXCEPT ![c] = 1]
    /\ result' = [result EXCEPT ![c] = NoResult]
    /\ nIssue' = [nIssue EXCEPT ![c] = 0]
    /\ nRefresh' = [nRefresh EXCEPT ![c] = 0]
    /\ waits' = [waits EXCEPT ![c] = <<>>]
    /\ wakeAt' = [wakeAt EXCEPT ![c] = 0]
    /\ UNCHANGED <<tokenCache, now, ticks, faults, ckey, creds, execVars, lastWrite, adminVars>>

\* getValidAccessToken calls racing on an entry that earlier calls left in the cache
NextRefreshRace ==
    \/ \E c \in Calls : StartGetToken(c, "k1")
    \/ \E c \in Calls : AuthStep(c)
    \/ \E c \in Calls : CallAgain(c)

SpecRefreshRace == Init /\ [][NextRefreshRace]_vars

\* Spec where every pending request is eventually answered and every timer fires
FairSpec == Spec /\ \A c \in Calls : WF_vars(AuthStep(c))

\* ----------------------------------------------- resource service methods
TokenOfRequest == AccessTokenOf(<<1, 1, "issue">>)
AuthenticationError == <<"Failed to authenticate with Spryker API">>
\* what executeSprykerRequest may throw
RequestFailures ==
    { RequestErrorMessage(TransportError(404, "", "404 - Not Found")),
      RequestErrorMessage(TransportError(500, "", "500 - Internal Server Error")) }

\* a service method is called for an item: it reads the item's parameters, builds
\* the URL and suspends on createSprykerRequest
ServiceBegin(method, params) ==
    /\ spc = "idle"
    /\ spc' = "creating"
    /\ smethod' = Append(smethod, method)
    /\ sparams' = params
    /\ sargs' = RequestArgs(method, params)
    /\ options' = NoOptions
    /\ sresponse' = NoApiResponse
    /\ sres' = NoOutcome

\* createSprykerRequest resolved: the method suspends on executeSprykerRequest
CreateRequestOk ==
    /\ spc = "creating"
    /\ options' = [RequestOptions(sargs) EXCEPT !.authorization = TokenOfRequest]
    /\ spc' = "executing"
    /\ UNCHANGED <<smethod, sparams, sargs, sresponse, sres>>
    /\ UNCHANGED <<tokenVars, nodeVars, utilVars>>

\* createSprykerRequest threw: the method rejects
CreateRequestFail ==
    /\ spc = "creating"
    /\ sres' = Thrown(<<"Authentication failed: ">> \o AuthenticationError)
    /\ spc' = "done"
    /\ UNCHANGED <<smethod, sparams, sargs, options, sresponse>>
    /\ UNCHANGED <<tokenVars, nodeVars, utilVars>>

\* executeSprykerRequest resolved with the API response: the method returns records
ExecuteRequestOk ==
    /\ spc = "executing"
    /\ \E resolved \in ApiResponses(TypeOf(smethod[Len(smethod)]), MapsArrays(smethod[Len(smethod)])) :
         /\ sresponse' = resolved
         /\ sres' = Records(RecordsOf(smethod[Len(smethod)], sparams, resolved))
    /\ spc' = "done"
    /\ UNCHANGED <<smethod, sparams, sargs, options>>
    /\ UNCHANGED <<tokenVars, nodeVars, utilVars>>

\* executeSprykerRequest threw: the method rejects
ExecuteRequestFail ==
    /\ spc = "executing"
    /\ \E message \in RequestFailures : sres' = Thrown(message)
    /\ spc' = "done"
    /\ UNCHANGED <<smethod, sparams, sargs, options, sresponse>>
    /\ UNCHANGED <<tokenVars, nodeVars, utilVars>>

ServiceStep ==
    \/ CreateRequestOk
    \/ CreateRequestFail
    \/ ExecuteRequestOk
    \/ ExecuteRequestFail

\* a caller invokes a service method of a service constructed for itemIndex
Invoke(method, itemIndex) ==
    /\ npc = "idle"
    /\ smethod = <<>>
    /\ \E params \in ItemParams(itemIndex) : ServiceBegin(method, params)
    /\ UNCHANGED <<tokenVars, nodeVars, utilVars>>

\* ------------------------------------------------------------ Spryker.execute
ErrorRecord(message) == [json |-> [error |-> message]]
Count(outs, ok) == Cardinality({n \in 1..Len(outs) : outs[n].ok = ok})
\* the _executionSummary record (executionTime and loggingStats left out)
SummaryRecord ==
    [json |-> [_executionSummary |->
        [resource |-> resource, operation |-> operation, itemsProcessed |-> items,
         successCount |-> Count(outcomes, TRUE), errorCount |-> Count(outcomes, FALSE)]]]

\* execute() runs up to the loop
Execute(n, cof, res, op, summary) ==
    /\ npc = "idle"
    /\ spc = "idle"
    /\ smethod = <<>>
    /\ npc' = "loop"
    /\ items' = n
    /\ idx' = 0
    /\ continueOnFail' = cof
    /\ resource' = res
    /\ operation' = op
    /\ withSummary' = summary
    /\ returnData' = <<>>
    /\ UNCHANGED <<thrown, dispatched, outcomes>>
    /\ UNCHANGED <<tokenVars, serviceVars, utilVars>>

\* the loop body calls executeOperation for item idx, which calls the routed
\* service method or throws
Dispatch ==
    /\ npc = "loop"
    /\ idx < items
    /\ npc' = "awaiting"
    /\ dispatched' = Append(dispatched, idx)
    /\ IF Route(resource, operation).method # NoMethod
       THEN \E params \in ItemParams(idx) : ServiceBegin(Route(resource, operation).method, params)
       ELSE /\ sres' = Thrown(Route(resource, operation).message)
            /\ spc' = "done"
            /\ UNCHANGED <<smethod, sparams, sargs, options, sresponse>>
    /\ UNCHANGED <<items, idx, continueOnFail, resource, operation, withSummary, returnData,
                   thrown, outcomes>>
    /\ UNCHANGED <<tokenVars, utilVars>>

\* the service object of an item is dropped when its call has settled
ServiceDrop ==
    /\ spc' = "idle"
    /\ smethod' = <<>>
    /\ sparams' = NoParams
    /\ sargs' = <<>>
    /\ options' = NoOptions
    /\ sresponse' = NoApiResponse
    /\ sres' = NoOutcome

OutcomeOf(methods, settled) ==
    [methods |-> methods, ok |-> settled.ok, records |-> settled.records, message |-> settled.message]

\* executeOperation resolved: the records are pushed and the loop goes on
ItemResolved ==
    /\ npc = "awaiting"
    /\ spc = "done"
    /\ sres.ok
    /\ returnData' = returnData \o sres.records
    /\ outcomes' = Append(outcomes, OutcomeOf(smethod, sres))
    /\ idx' = idx + 1
    /\ npc' = "loop"
    /\ ServiceDrop
    /\ UNCHANGED <<items, continueOnFail, resource, operation, withSummary, thrown, dispatched>>
    /\ UNCHANGED <<tokenVars, utilVars>>

\* ItemRejected without the error record
ItemRejectedNoRecord ==
    /\ npc = "awaiting"
    /\ spc = "done"
    /\ ~sres.ok
    /\ outcomes' = Append(outcomes, OutcomeOf(smethod, sres))
    /\ IF continueOnFail
       THEN /\ idx' = idx + 1
            /\ npc' = "loop"
            /\ UNCHANGED <<thrown, returnData>>
       ELSE /\ thrown' = sres.message
            /\ npc' = "thrown"
            /\ UNCHANGED <<returnData, idx>>
    /\ ServiceDrop
    /\ UNCHANGED <<items, continueOnFail, resource, operation, withSummary, dispatched>>
    /\ UNCHANGED <<tokenVars, utilVars>>

\* ItemRejected that goes on whatever continueOnFail() answers
ItemRejectedGoesOn ==
    /\ npc = "awaiting"
    /\ spc = "done"
    /\ ~sres.ok
    /\ outcomes' = Append(outcomes, OutcomeOf(smethod, sres))
    /\ returnData' = Append(returnData, ErrorRecord(sres.message))
    /\ idx' = idx + 1
    /\ npc' = "loop"
    /\ UNCHANGED thrown
    /\ ServiceDrop
    /\ UNCHANGED <<items, continueOnFail, resource, operation, withSummary, dispatched>>
    /\ UNCHANGED <<tokenVars, utilVars>>

\* executeOperation rejected: an error record is pushed or the error is thrown
ItemRejected ==
    /\ npc = "awaiting"
    /\ spc = "done"
    /\ ~sres.ok
    /\ outcomes' = Append(outcomes, OutcomeOf(smethod, sres))
    /\ IF continueOnFail
       THEN /\ returnData' = Append(returnData, ErrorRecord(sres.message))
            /\ idx' = idx + 1
            /\ npc' = "loop"
            /\ UNCHANGED thrown
       ELSE /\ thrown' = sres.message
            /\ npc' = "thrown"
            /\ UNCHANGED <<returnData, idx>>
    /\ ServiceDrop
    /\ UNCHANGED <<items, continueOnFail, resource, operation, withSummary, dispatched>>
    /\ UNCHANGED <<tokenVars, utilVars>>

\* the loop is over: the summary is pushed when asked for and execute returns
ExecuteReturn ==
    /\ npc = "loop"
    /\ idx >= items
    /\ returnData' = IF withSummary THEN Append(returnData, SummaryRecord) ELSE returnData
    /\ npc' = "returned"
    /\ UNCHANGED <<items, idx, continueOnFail, resource, operation, withSummary, thrown,
                   dispatched, outcomes>>
    /\ UNCHANGED <<tokenVars, serviceVars, utilVars>>

NodeStep ==
    \/ Dispatch
    \/ ItemResolved
    \/ ItemRejected
    \/ ExecuteReturn

\* one execution of the node over 0..MaxItems input items
NextNode ==
    \/ \E n \in 0..MaxItems, cof \in BOOLEAN, res \in Resources, op \in Operations,
          summary \in BOOLEAN : Execute(n, cof, res, op, summary)
    \/ NodeStep
    \/ ServiceStep
SpecNode == Init /\ [][NextNode]_vars
\* every call the loop awaits settles
FairSpecNode == SpecNode /\ WF_vars(NodeStep) /\ WF_vars(ServiceStep)

\* a caller invokes a service method for an item with parameters `params`
InvokeWith(method, params) ==
    /\ npc = "idle"
    /\ smethod = <<>>
    /\ ServiceBegin(method, params)
    /\ UNCHANGED <<tokenVars, nodeVars, utilVars>>

\* one call of any method with any list of fields to extract
NextFields ==
    \/ \E method \in ServiceMethods, params \in FieldParams : InvokeWith(method, params)
    \/ ServiceStep
SpecFields == Init /\ [][NextFields]_vars

\* one call of any method of the two services
NextService ==
    \/ \E method \in ServiceMethods, itemIndex \in 0..MaxItems - 1 : Invoke(method, itemIndex)
    \/ ServiceStep
SpecService == Init /\ [][NextService]_vars

\* ------------------------------------------- request builder method calls
\* new SprykerRequestBuilder(baseUrl) / new SprykerRequestBuilderWithLogging(baseUrl)
CreateBuilder(class, baseUrl) ==
    /\ builderClass = "none"
    /\ builderClass' = class
    /\ builder' = NewBuilder(baseUrl)
    /\ UNCHANGED <<history, built>>
    /\ UNCHANGED <<tokenVars, nodeVars, serviceVars, loggingVars>>
\* a modifying method may be called
CanModify == builderClass # "none" /\ Len(history) < MaxEdits
\* the call is noted; what build() gave before is out of date
Noted(call) ==
    /\ history' = Append(history, call)
    /\ built' = <<>>
    /\ UNCHANGED builderClass
    /\ UNCHANGED <<tokenVars, nodeVars, serviceVars, loggingVars>>
SetEndpoint(endpoint) ==
    /\ CanModify
    /\ builder' = setEndpoint(builder, endpoint)
    /\ Noted(MethodCall("setEndpoint", "", Str(endpoint), 0, 0))
AddQueryParam(key, value) ==
    /\ CanModify
    /\ builder' = addQueryParamValue(builder, key, value)
    /\ Noted(MethodCall("addQueryParam", key, value, 0, 0))
AddInclude(include) ==
    /\ CanModify
    /\ builder' = addInclude(builder, include)
    /\ Noted(MethodCall("addInclude", "", Str(include), 0, 0))
AddPagination(pageSize, pageNumber) ==
    /\ CanModify
    /\ builder' = addPagination(builder, pageSize, pageNumber)
    /\ Noted(MethodCall("addPagination", "", Undefined, pageSize, pageNumber))
\* a build() that uses the query parameters up
BuildConsuming ==
    /\ builderClass # "none"
    /\ Len(built) < MaxBuilds
    /\ built' = Append(built, BuildOutcome(builderClass, builder))
    /\ builder' = [builder EXCEPT !.queryParams = <<>>]
    /\ UNCHANGED <<builderClass, history>>
    /\ UNCHANGED <<tokenVars, nodeVars, serviceVars, loggingVars>>
\* build(): reads the builder, writes nothing
Build ==
    /\ builderClass # "none"
    /\ Len(built) < MaxBuilds
    /\ built' = Append(built, BuildOutcome(builderClass, builder))
    /\ UNCHANGED <<builder, builderClass, history>>
    /\ UNCHANGED <<tokenVars, nodeVars, serviceVars, loggingVars>>

NextBuilder ==
    \/ \E class \in BuilderClasses, baseUrl \in BaseUrls : CreateBuilder(class, baseUrl)
    \/ SetEndpoint(<<"test">>)
    \/ \E key \in ParamKeys, value \in ParamValues : AddQueryParam(key, value)
    \/ \E include \in IncludeValues : AddInclude(include)
    \/ \E pageSize \in PageSizes, pageNumber \in PageNumbers : AddPagination(pageSize, pageNumber)
    \/ Build
SpecBuilder == Init /\ [][NextBuilder]_vars

\* ------------------------------- executeSprykerRequestWithLogging, logger calls
\* the call up to its first await: the logger is configured, the request is
\* logged when logging is on, and the first transport call is made
ExecuteBegin(requestOptions, params, maxRetries) ==
    LET configured == [logger EXCEPT !.isEnabled = params.enableLogging]
    IN  /\ lx.pc \in {"idle", "done"}
        /\ lx.n < MaxRequests
        /\ request' = requestOptions
        /\ logger' = IF params.enableLogging
                     THEN logRequest(configured, createLoggingOptions(requestOptions, params))
                     ELSE configured
        /\ lx' = [pc |-> "request", n |-> lx.n + 1, attempt |-> 1, maxRetries |-> maxRetries,
                  calls |-> 1, lastError |-> PlainError(<<>>), outcome |-> NoResponse,
                  requestId |-> IF params.enableLogging THEN RequestIdOf(configured) ELSE 0,
                  params |-> params, delays |-> <<>>]
        /\ UNCHANGED <<tokenVars, nodeVars, serviceVars, builderVars>>
\* helpers.request resolved: the response is logged and returned
LoggedTransportOk ==
    LET body == <<"response", ToString(lx.n), ToString(lx.calls)>>
    IN  /\ lx.pc = "request"
        /\ logger' = IF lx.params.enableLogging /\ lx.requestId # 0
                     THEN logResponse(logger, lx.requestId,
                                      IF lx.params.logLevel = "basic" THEN <<"[BODY_EXCLUDED]">> ELSE body)
                     ELSE logger
        /\ lx' = [lx EXCEPT !.pc = "done", !.outcome = Response(body)]
        /\ UNCHANGED request
        /\ UNCHANGED <<tokenVars, nodeVars, serviceVars, builderVars>>
\* helpers.request rejected with `error`: the catch block
LoggedTransportFails(error) ==
    /\ lx.pc = "request"
    /\ logger' = IF lx.params.enableLogging /\ lx.requestId # 0
                 THEN logError(logger, lx.requestId, error) ELSE logger
    /\ IF Retried(error, lx.attempt, lx.maxRetries)
       THEN IF error.statusCode = 401
            THEN /\ tokenCache' = EmptyMap
                 /\ lx' = [lx EXCEPT !.pc = "token", !.lastError = error]
            ELSE /\ lx' = [lx EXCEPT !.pc = "delay", !.lastError = error,
                                     !.delays = Append(@, RetryDelay(error, lx.attempt))]
                 /\ UNCHANGED tokenCache
       ELSE /\ lx' = [lx EXCEPT !.pc = "done", !.lastError = error,
                                !.outcome = RequestFailure(formatSprykerError(error))]
            /\ UNCHANGED tokenCache
    /\ UNCHANGED request
    /\ UNCHANGED <<now, ticks, faults, authVars, execVars, lastWrite, adminVars>>
    /\ UNCHANGED <<nodeVars, serviceVars, builderVars>>
\* `continue`: attempt++ and the loop test; the next transport call, or the
\* formatted last error when no attempt is left
NextAttempt(locals) ==
    IF locals.attempt + 1 <= locals.maxRetries + 1
    THEN [locals EXCEPT !.pc = "request", !.attempt = @ + 1, !.calls = @ + 1]
    ELSE [locals EXCEPT !.pc = "done", !.attempt = @ + 1,
                        !.outcome = RequestFailure(formatSprykerError(locals.lastError))]
\* getValidAccessToken resolved after the 401: the header is replaced, next attempt
FreshTokenOk ==
    /\ lx.pc = "token"
    /\ request' = [request EXCEPT !.headers = MapSet(@, "Authorization", BearerOf("access-2"))]
    /\ lx' = NextAttempt(lx)
    /\ UNCHANGED logger
    /\ UNCHANGED <<tokenVars, nodeVars, serviceVars, builderVars>>
\* getValidAccessToken rejected after the 401: thrown out of the loop
FreshTokenFails ==
    /\ lx.pc = "token"
    /\ lx' = [lx EXCEPT !.pc = "done",
                        !.outcome = RequestFailure(<<"Authentication failed after retry: ">>
                                                      \o AuthenticationError)]
    /\ UNCHANGED <<logger, request>>
    /\ UNCHANGED <<tokenVars, nodeVars, serviceVars, builderVars>>
\* the delay before a retry is over
DelayOver ==
    /\ lx.pc = "delay"
    /\ lx' = NextAttempt(lx)
    /\ UNCHANGED <<logger, request>>
    /\ UNCHANGED <<tokenVars, nodeVars, serviceVars, builderVars>>
\* logger.setEnabled(enabled)
SetEnabled(enabled) ==
    /\ logger.isEnabled # enabled
    /\ logger' = [logger EXCEPT !.isEnabled = enabled]
    /\ UNCHANGED <<request, lx>>
    /\ UNCHANGED <<tokenVars, nodeVars, serviceVars, builderVars>>
\* logger.logRequest(options, ...) called with options as they are
LogRequest(requestOptions) ==
    /\ logger.isEnabled
    /\ logger.ids < MaxRequests
    /\ logger' = logRequest(logger, requestOptions)
    /\ UNCHANGED <<request, lx>>
    /\ UNCHANGED <<tokenVars, nodeVars, serviceVars, builderVars>>
\* the 30 s timer or the exit handler: logger.flushBuffer()
FlushBuffer ==
    /\ logger.logBuffer # <<>>
    /\ logger' = flushBuffer(logger)
    /\ UNCHANGED <<request, lx>>
    /\ UNCHANGED <<tokenVars, nodeVars, serviceVars, builderVars>>

LoggedStep ==
    \/ LoggedTransportOk
    \/ \E error \in ResourceErrors : LoggedTransportFails(error)
    \/ FreshTokenOk
    \/ FreshTokenFails
    \/ DelayOver
\* requests with every logging option, logger calls from elsewhere, flushes
LoggedErrors == { TransportError(401, "", "401 - Unauthorized") }
NextLogging ==
    \/ \E requestOptions \in ExecutedRequests, params \in LoggingParams :
          ExecuteBegin(requestOptions, params, 1)
    \/ LoggedTransportOk
    \/ \E error \in LoggedErrors : LoggedTransportFails(error)
    \/ FreshTokenOk
    \/ FreshTokenFails
    \/ \E enabled \in BOOLEAN : SetEnabled(enabled)
    \/ \E requestOptions \in LoggedRequests : LogRequest(requestOptions)
    \/ FlushBuffer
SpecLogging == Init /\ [][NextLogging]_vars
\* requests with every retry limit, the transport failing in every way
\* ------------------------------------------ logger.logRequest / logResponse / logError
MaxLogged == 10
\* requestId = logger.logRequest(options, operation, resource)
RecordRequest(requestOptions) ==
    /\ logger.isEnabled
    /\ lx.pc \in {"idle", "done"}
    /\ logger.ids < MaxLogged
    /\ logger' = logRequest(logger, requestOptions)
    /\ lx' = [lx EXCEPT !.pc = "request", !.n = logger.ids + 1, !.requestId = RequestIdOf(logger)]
    /\ UNCHANGED request
    /\ UNCHANGED <<tokenVars, nodeVars, serviceVars, builderVars>>
\* logger.logResponse(requestId, response, responseTime)
ReportResponse ==
    /\ lx.pc = "request"
    /\ logger' = logResponse(logger, lx.requestId, <<"response", ToString(lx.n)>>)
    /\ lx' = [lx EXCEPT !.pc = "done"]
    /\ UNCHANGED request
    /\ UNCHANGED <<tokenVars, nodeVars, serviceVars, builderVars>>
\* logger.logError(requestId, error, responseTime)
ReportError(error) ==
    /\ lx.pc = "request"
    /\ logger' = logError(logger, lx.requestId, error)
    /\ lx' = [lx EXCEPT !.pc = "done"]
    /\ UNCHANGED request
    /\ UNCHANGED <<tokenVars, nodeVars, serviceVars, builderVars>>
\* logging switched on, then requests recorded and reported one after another; no
\* timer fires
NextBuffer ==
    \/ SetEnabled(TRUE)
    \/ RecordRequest(GetRequest)
    \/ ReportResponse
    \/ \E error \in LoggedErrors : ReportError(error)
SpecBuffer == Init /\ [][NextBuffer]_vars

NextRetry ==
    \/ \E enabled \in BOOLEAN, maxRetries \in RetryLimits :
          ExecuteBegin(GetRequest, [NoExecution.params EXCEPT !.enableLogging = enabled], maxRetries)
    \/ LoggedStep
SpecRetry == Init /\ [][NextRetry]_vars
FairSpecRetry == SpecRetry /\ WF_vars(LoggedStep)

\* ------------------------------------------------------------- properties
HasEntry(c) == ckey[c] \in DOMAIN tokenCache
Entry(c) == tokenCache[ckey[c]]
\* call c leaves the suspension point it is at
Moves(c) == pc'[c] # pc[c]

\* C1: against an empty cache the first thing a call sends is one token-issuance
\* request, and when that request is answered with a token the call has sent
\* exactly one request and returns the token it stored; a call that starts while
\* now < expiresAt of the cached entry sends no request, leaves the cache alone
\* and returns the cached access token.
C1_FirstIssuesLaterHits ==
    [][\A c \in Calls :
        /\ (pc[c] = "creds" /\ Moves(c) /\ ~HasEntry(c))
              => /\ pc'[c] = "issuing"
                 /\ nIssue'[c] = 1 /\ nRefresh'[c] = 0
        /\ (pc[c] = "issuing" /\ attempt[c] = 1 /\ nRefresh[c] = 0
               /\ pc'[c] = "done" /\ result'[c].state = "ok")
              => /\ nIssue'[c] = 1 /\ nRefresh'[c] = 0
                 /\ tokenCache'[ckey[c]].accessToken = result'[c].token
        /\ (pc[c] = "creds" /\ Moves(c) /\ HasEntry(c) /\ now < Entry(c).expiresAt)
              => /\ pc'[c] = "done"
                 /\ result'[c] = Success(Entry(c).accessToken, "cache")
                 /\ nIssue'[c] = 0 /\ nRefresh'[c] = 0
                 /\ tokenCache' = tokenCache
      ]_vars

\* a second call returned, without any request, the token the first call was issued
C1_Witness ==
    \E c, d \in Calls :
        /\ c # d
        /\ pc[d] = "done" /\ result[d].via = "issue" /\ nIssue[d] = 1 /\ attempt[d] = 1
        /\ pc[c] = "done" /\ result[c].via = "cache"
        /\ nIssue[c] = 0 /\ nRefresh[c] = 0
        /\ result[c].token = result[d].token

\* C2: a 401 on the resource request clears the cached token and starts a new
\* getValidAccessToken; when it returns a token the Authorization header is set to
\* it and the transport call is repeated, once; the answer to the repeat is the
\* caller's response; a failed re-acquisition or a failed repeat (another 401
\* included) ends the request with an error that contains 'failed after retry'
\* followed by the failure's message.
C2_RetryOnceAfter401 ==
    /\ [](\A c \in Calls : nSend[c] <= 2 /\ (nSend[c] = 2 => retried[c]))
    /\ [][\A c \in Calls :
            /\ (xpc[c] = "send1" /\ xpc'[c] = "reauth")
                  => /\ ckey[c] \notin DOMAIN tokenCache'
                     /\ pc'[c] = "creds" /\ inv'[c] = inv[c] + 1
                     /\ nSend'[c] = 1
            /\ (xpc[c] = "reauth" /\ xpc'[c] # "reauth")
                  => IF result[c].state = "ok"
                     THEN /\ xpc'[c] = "send2"
                          /\ hdr'[c] = result[c].token
                          /\ nSend'[c] = 2
                     ELSE /\ xpc'[c] = "done"
                          /\ nSend'[c] = 1
                          /\ xres'[c].state = "error"
                          /\ Contains(xres'[c].message, "failed after retry")
                          /\ SubSeq(xres'[c].message, 4, Len(xres'[c].message)) = result[c].message
            /\ (xpc[c] = "send2" /\ xpc'[c] # "send2")
                  => /\ xpc'[c] = "done"
                     /\ nSend'[c] = 2
                     /\ \/ xres'[c] = Response(ResponseBody(c, 2))
                        \/ /\ xres'[c].state = "error"
                           /\ Contains(xres'[c].message, "failed after retry")
                           /\ \E error \in TransportErrors :
                                SubSeq(xres'[c].message, 4, Len(xres'[c].message)) = error.message
       ]_vars

\* a request whose first call got 401 succeeded on the repeat with the token of
\* the second getValidAccessToken
C2_Witness ==
    \E c \in Calls :
        /\ xpc[c] = "done" /\ retried[c] /\ nSend[c] = 2
        /\ xres[c] = Response(ResponseBody(c, 2))
        /\ hdr[c] = AccessTokenOf(<<c, 2, "issue">>)

\* C3: a call that finds an expired entry holding a refresh token sends one
\* refresh request and nothing else; over the whole call at most one refresh
\* request is sent; when the refresh fails the stale entry is deleted and a
\* token-issuance request is sent in the same attempt, and the token issued in
\* answer to it is what the call returns; a call only fails after three failed
\* token-issuance requests, never on the refresh failure alone.
C3_OneRefreshThenFallback ==
    /\ [](\A c \in Calls :
            /\ nRefresh[c] <= 1
            /\ (pc[c] = "done" /\ result[c].state = "error") => nIssue[c] = MAX_RETRY_ATTEMPTS)
    /\ [][\A c \in Calls :
            /\ (pc[c] = "creds" /\ Moves(c) /\ HasEntry(c)
                   /\ now >= Entry(c).expiresAt /\ Entry(c).refreshToken # NoToken)
                  => /\ pc'[c] = "refreshing"
                     /\ nRefresh'[c] = 1 /\ nIssue'[c] = 0
            /\ (pc[c] = "refreshing" /\ Moves(c) /\ pc'[c] # "done")
                  => /\ pc'[c] = "issuing"
                     /\ attempt'[c] = attempt[c]
                     /\ nRefresh'[c] = nRefresh[c] /\ nIssue'[c] = nIssue[c] + 1
                     /\ ckey[c] \notin DOMAIN tokenCache'
            /\ (pc[c] = "issuing" /\ nRefresh[c] = 1 /\ pc'[c] = "done" /\ result'[c].state = "ok")
                  => result'[c] = Success(AccessTokenOf(RequestId(c, "issue")), "issue")
       ]_vars

\* a refresh failed and the same attempt returned a newly issued token
C3_Witness ==
    \E c \in Calls :
        /\ pc[c] = "done" /\ attempt[c] = 1
        /\ nRefresh[c] = 1 /\ nIssue[c] = 1
        /\ result[c] = Success(AccessTokenOf(<<c, 1, "issue">>), "issue")

\* C4: when the refresh request is answered with a token, the cache entry of the
\* key becomes the refreshed accessToken and refreshToken with
\* expiresAt = now + expiresIn*1000 - 60000, the call returns the refreshed access
\* token, and no token-issuance request is sent.
C4_RefreshSuccessReplacesEntry ==
    /\ [](\A c \in Calls :
            (pc[c] = "done" /\ result[c].via = "refresh") => (nIssue[c] = 0 /\ nRefresh[c] = 1))
    /\ [][\A c \in Calls :
            (pc[c] = "refreshing" /\ pc'[c] = "done")
               => /\ result'[c] = Success(AccessTokenOf(RequestId(c, "refresh")), "refresh")
                  /\ HasEntry(c)'
                  /\ Entry(c)'.accessToken = AccessTokenOf(RequestId(c, "refresh"))
                  /\ Entry(c)'.refreshToken = RefreshTokenOf(RequestId(c, "refresh"))
                  /\ \E e \in ExpiresInValues : Entry(c)'.expiresAt = now + e * 1000 - 60000
                  /\ (HasEntry(c) => Entry(c)' # Entry(c))
                  /\ nIssue'[c] = nIssue[c]
       ]_vars

\* an expired entry was replaced by the refreshed one and its token returned
C4_Witness ==
    \E c \in Calls :
        /\ pc[c] = "done" /\ result[c].via = "refresh"
        /\ HasEntry(c) /\ Entry(c).accessToken = result[c].token
        /\ Entry(c).refreshToken = RefreshTokenOf(<<c, 1, "refresh">>)
        /\ nIssue[c] = 0

\* the messages getNewAccessToken can rethrow with
IssueFailureMessages ==
    { NewTokenErrorMessage(error) :
        error \in TransportErrors \cup {PlainError(<<"Invalid token response format from Spryker API">>)} }

C6_OnlyTransientRetried ==
    \A c \in Calls :
        (/\ pc[c] = "done" /\ result[c].state = "error"
         /\ \/ Contains(result[c].message, "Invalid username or password")
            \/ Contains(result[c].message, "Invalid token response format from Spryker API"))
           => (nIssue[c] = 1 /\ attempt[c] = 1)

\* C7: a call that finds an entry that is not yet expired, has less than 5 minutes
\* left and holds a refresh token sends a refresh request instead of returning the
\* cached access token.
C7_ProactiveRefresh ==
    [][\A c \in Calls :
        (/\ pc[c] = "creds" /\ Moves(c) /\ HasEntry(c)
         /\ now < Entry(c).expiresAt
         /\ Entry(c).expiresAt - now < 5 * 60 * 1000
         /\ Entry(c).refreshToken # NoToken)
           => (pc'[c] = "refreshing" /\ nRefresh'[c] = 1)
      ]_vars

\* C8: the 401 branch of a request deletes the cache entry of the request's own
\* key only; the entry of every other key stays as it was.
C8_OnlyOwnEntryCleared ==
    [][\A c \in Calls :
        (xpc[c] = "send1" /\ xpc'[c] = "reauth")
           => \A k \in DOMAIN tokenCache :
                k # ckey[c] => (k \in DOMAIN tokenCache' /\ tokenCache'[k] = tokenCache[k])
      ]_vars

\* the entry is one server response as a whole
WholeEntry(entry) ==
    /\ entry.accessToken.part = "access"
    /\ entry.refreshToken.part = "refresh"
    /\ entry.accessToken.id = entry.refreshToken.id
    /\ \E e \in ExpiresInValues :
         entry.expiresAt - e * 1000 + TOKEN_SAFETY_MARGIN \in 100000..now

C10_AdminOpsAreSafe ==
    /\ [](\A c \in Calls :
            /\ (pc[c] = "done" /\ result[c].state = "error") => nIssue[c] = MAX_RETRY_ATTEMPTS
            /\ (pc[c] = "done" /\ result[c].state = "ok")
                  => \/ result[c].via = "cache"
                     \/ result[c].token = AccessTokenOf(<<c, 1, result[c].via>>))
    /\ [][\A c \in Calls :
            (Moves(c) /\ pc'[c] = "done" /\ result'[c].via = "cache")
               => /\ HasEntry(c)
                  /\ result'[c].token = Entry(c).accessToken
                  /\ now' < Entry(c).expiresAt
       ]_vars
    /\ \A c \in Calls : (pc[c] \in {"creds", "refreshing", "issuing", "delay"}) ~> (pc[c] = "done")

\* the entry a call is refreshing was removed from the cache by an administrative
\* operation while the refresh request is in flight
C10_Witness ==
    \E c \in Calls :
        /\ pc[c] = "refreshing" /\ ~HasEntry(c)
        /\ adminResult.op \in {"clearTokenCache", "clearUserTokenCache", "cleanupExpiredTokens"}

\* the cache holds nothing that was not in it before the step
NoCacheWrite ==
    \A k \in DOMAIN tokenCache' : k \in DOMAIN tokenCache /\ tokenCache'[k] = tokenCache[k]

\* C15: a token-issuance or refresh request that does not end in a returned
\* token (a response without accessToken, without refreshToken or without a
\* numeric expiresIn included) writes nothing to the cache, and a response of
\* invalid shape to the third issuance request ends the call with the
\* invalid-response error; every entry in the cache, and every entry ever
\* written, holds an accessToken, a refreshToken and a numeric expiresAt.
C15_InvalidResponseNeverCached ==
    /\ [](\A k \in DOMAIN tokenCache :
            /\ tokenCache[k].accessToken # NoToken
            /\ tokenCache[k].refreshToken # NoToken
            /\ tokenCache[k].expiresAt \in Int)
    /\ [](\A k \in DOMAIN lastWrite :
            /\ lastWrite[k].accessToken # NoToken
            /\ lastWrite[k].refreshToken # NoToken
            /\ lastWrite[k].expiresAt \in Int)
    /\ [][\A c \in Calls :
            (pc[c] \in {"issuing", "refreshing"} /\ Moves(c) /\ pc'[c] # "done")
               => (NoCacheWrite /\ lastWrite' = lastWrite)
       ]_vars
    /\ [][\A c \in Calls :
            (pc[c] = "issuing" /\ pc'[c] = "done" /\ result'[c].state = "error")
               => (NoCacheWrite /\ lastWrite' = lastWrite)
       ]_vars

\* a call ended on a token response of invalid shape and nothing was ever cached
C15_Witness ==
    \E c \in Calls :
        /\ pc[c] = "done" /\ result[c].state = "error"
        /\ Contains(result[c].message, "Invalid token response format from Spryker API")
        /\ lastWrite = EmptyMap /\ tokenCache = EmptyMap

\* C16: the entry written when a token response is processed at time now has
\* expiresAt = now + expiresIn*1000 - 60000 for the expiresIn of the response, so
\* isTokenValid turns false 60000 ms before now + expiresIn*1000.
C16_ExpiresAtHasSafetyMargin ==
    [][\A c \in Calls :
        (pc[c] \in {"issuing", "refreshing"} /\ pc'[c] = "done" /\ result'[c].state = "ok")
           => \E response \in ValidResponses(RequestId(c, result'[c].via)) :
                LET serverExpiry == now + response.expiresIn * 1000
                IN  /\ HasEntry(c)'
                    /\ Entry(c)'.accessToken = response.accessToken
                    /\ Entry(c)'.expiresAt = serverExpiry - 60000
                    /\ lastWrite'[ckey[c]] = Entry(c)'
                    /\ isTokenValid(Entry(c)', serverExpiry - 60001)
                    /\ ~isTokenValid(Entry(c)', serverExpiry - 60000)
                    /\ ~isTokenValid(Entry(c)', serverExpiry - 1)
      ]_vars

\* an issued token with expiresIn = 61 is in the cache with 1000 ms left
C16_Witness ==
    \E c \in Calls :
        /\ pc[c] = "done" /\ result[c].via = "issue"
        /\ HasEntry(c) /\ Entry(c).accessToken = result[c].token
        /\ Entry(c).expiresAt = now + 61 * 1000 - 60000

\* the credentials are absent, lack a field or carry a baseUrl that is no URL
BadCredentials(credentials) ==
    \/ ~credentials.present
    \/ credentials.username = ""
    \/ credentials.password = ""
    \/ credentials.baseUrl = NoUrl
    \/ ~ParsesAsURL(credentials.baseUrl)

C14_PreIssuedTokenIsUsed ==
    \A c \in Calls :
        (creds[c] = TokenCredentials /\ pc[c] = "done")
           => /\ result[c].state = "ok"
              /\ (xpc[c] \in {"send1", "done"}
                     => (nSend[c] >= 1 /\ hdr[c] = [part |-> "access", id |-> <<0, 0, creds[c].accessToken>>]))

\* the statuses and network codes the request executor is to recognize
Recognized(error) ==
    \/ error.statusCode \in {403, 404, 422, 429}
    \/ error.code \in {"ECONNREFUSED", "ETIMEDOUT", "ECONNRESET", "ENOTFOUND"}

\* C17: when the first transport call of a resource request is rejected with
\* something other than 401, the request ends with an error; for status 403, 404,
\* 422, 429 and for the codes ECONNREFUSED, ETIMEDOUT, ECONNRESET, ENOTFOUND the
\* message is a specific one, not the generic 'Spryker API request failed: '
\* wrapper; for every other rejection it is 'Spryker API request failed: '
\* followed by the message of the rejection.
C17_RecognizedFailuresNamed ==
    [][\A c \in Calls :
        (xpc[c] = "send1" /\ xpc'[c] = "done" /\ xres'[c].state = "error")
           => \E error \in ResourceErrors :
                IF Recognized(error)
                THEN /\ Head(xres'[c].message) # "Spryker API request failed: "
                     /\ (error.statusCode = 422 => Contains(xres'[c].message, error.message[1]))
                ELSE xres'[c].message = <<"Spryker API request failed: ">> \o error.message
      ]_vars

\* what an item contributes to the output when failures are converted
ContributionOf(outcome) ==
    IF outcome.ok THEN outcome.records ELSE <<ErrorRecord(outcome.message)>>
RECURSIVE Contributions(_)
Contributions(outs) ==
    IF outs = <<>> THEN <<>> ELSE ContributionOf(Head(outs)) \o Contributions(Tail(outs))
\* the dispatched items are 0, 1, 2, ... without a gap
DispatchedInOrder == dispatched = [n \in 1..Len(dispatched) |-> n - 1]
ConvertedFailures ==
    (continueOnFail /\ npc # "idle") =>
        /\ DispatchedInOrder
        /\ npc # "thrown"
        /\ npc \in {"loop", "awaiting"} => returnData = Contributions(outcomes)
        /\ npc = "returned" =>
              /\ Len(dispatched) = items
              /\ Len(outcomes) = items
              /\ returnData = Contributions(outcomes)
                                \o (IF withSummary THEN <<SummaryRecord>> ELSE <<>>)

\* C11: with continue-on-failure enabled, execute dispatches every item in index
\* order and returns; the output is, item by item in order, the records of an item
\* that succeeded and one {error: message} record for an item that failed (followed
\* by the execution summary when that is asked for), so no failure keeps a later
\* item from being dispatched
C11_ContinueOnFailProcessesEveryItem ==
    /\ []ConvertedFailures
    /\ (npc = "loop" /\ continueOnFail) ~> (npc = "returned")
C11_Witness ==
    /\ npc = "returned"
    /\ continueOnFail
    /\ items = 2
    /\ ~outcomes[1].ok
    /\ outcomes[2].ok
    /\ Len(returnData) = 2
    /\ returnData[1] = ErrorRecord(outcomes[1].message)

\* C12: with continue-on-failure disabled, the first item that fails makes execute
\* throw that item's error: nothing is returned and no later item is dispatched
C12_FirstFailureAborts ==
    (~continueOnFail /\ \E n \in 1..Len(outcomes) : ~outcomes[n].ok) =>
        /\ npc = "thrown"
        /\ \A n \in 1..Len(outcomes) : outcomes[n].ok <=> n < Len(outcomes)
        /\ thrown = outcomes[Len(outcomes)].message
        /\ DispatchedInOrder
        /\ Len(dispatched) = Len(outcomes)
C12_Witness ==
    /\ npc = "thrown"
    /\ ~continueOnFail
    /\ items = 2
    /\ dispatched = <<0>>
    /\ thrown # <<>>

\* the (resource, operation) pairs the node offers, and the service method of each
OfferedPairs ==
    {<<"cmsPages", op>> : op \in {"getAll", "get"}}
       \cup {<<"abstractProducts", op>> : op \in Operations \ {"getAll", "delete"}}
OfferedMethod(res, op) ==
    IF res = "cmsPages"
    THEN Method("CmsPageService", IF op = "getAll" THEN "getMany" ELSE "getById")
    ELSE Method("AbstractProductService", IF op = "get" THEN "getById" ELSE op)

\* C18: executeOperation calls exactly the one service method of the (resource,
\* operation) pair for each of the eleven offered pairs, and for any other pair
\* throws an 'Unsupported ...' error without calling a service method
C18_EveryOfferedPairIsRouted ==
    \A n \in 1..Len(outcomes) :
        IF <<resource, operation>> \in OfferedPairs
        THEN outcomes[n].methods = <<OfferedMethod(resource, operation)>>
        ELSE /\ outcomes[n].methods = <<>>
             /\ ~outcomes[n].ok
             /\ outcomes[n].message[1] \in {"Unsupported resource: ",
                                            "Unsupported CMS page operation: ",
                                            "Unsupported abstract product operation: "}

\* the method the service is running or has run
Running(name) == smethod # <<>> /\ smethod[Len(smethod)].name = name
\* the request options exist: createSprykerRequest has resolved
RequestBuilt == spc = "executing" \/ (spc = "done" /\ options # NoOptions)

\* C19: createReview sends one request whose method is POST and whose body is
\* {data: {type: 'product-reviews', attributes: {rating, nickname, summary,
\* description}}} of the item's parameters, and transforms the single resource of
\* the response like a read of one review
C19_CreateReviewPostsTheReview ==
    (Running("createReview") /\ RequestBuilt) =>
        /\ IsString(options.method, "POST")
        /\ options.body.t = "object"
        /\ options.body.v = ReviewBody(sparams)
        /\ options.contentType = "application/json"
        /\ (spc = "done" /\ sres.ok /\ ~sparams.rawResponse /\ sresponse.data.kind = "object")
              => sres.records =
                    <<TransformOne("product-reviews", sresponse.data.value[1],
                                   sparams.fieldsToExtract)>>

\* C20: with the raw-response flag set, a method that got a response returns
\* exactly one record whose json is that response, whatever fieldsToExtract and the
\* other parameters are and whether or not the response has data
C20_RawResponseIsVerbatim ==
    (spc = "done" /\ sres.ok /\ sparams.rawResponse) => sres.records = <<[json |-> sresponse]>>
C20_Witness ==
    /\ spc = "done"
    /\ sres.ok
    /\ sparams.rawResponse
    /\ sparams.fieldsToExtract # <<>>
    /\ Running("getReviews")
    /\ sresponse.data.kind = "array"
    /\ sres.records = <<[json |-> sresponse]>>

\* a method returned records for a response, without the raw-response flag
Transforming == spc = "done" /\ sres.ok /\ ~sparams.rawResponse
\* the names `fieldsToExtract` asks for
Requested(fieldsToExtract) ==
    {k \in {"id", "type", "name", "url", "sku", "links", "_raw", "missing", "price", "prices",
            "availability", "quantity", "imageSets", "restTaxRates", "rating", "nickname",
            "summary", "description"} :
        \E n \in 1..Len(FieldsOf(fieldsToExtract)) : FieldsOf(fieldsToExtract)[n] = <<k>>}

\* C21: for a response that carries no data, the list operation (getMany) and the
\* single-item operation (getById) return exactly one record equal to the response
\* and raise no error
C21_MissingDataGivesRawRecord ==
    (spc = "done" /\ (Running("getMany") \/ Running("getById")) /\ sresponse # NoApiResponse
        /\ sresponse.data.kind = "absent")
       => sres = Records(<<[json |-> sresponse]>>)
C21_Witness ==
    /\ Transforming
    /\ Running("getMany")
    /\ sparams.fieldsToExtract # <<>>
    /\ sresponse.data.kind = "absent"
    /\ sresponse.errors.kind = "array"
    /\ sres.records = <<[json |-> sresponse]>>

\* C22: with fieldsToExtract given, each output record has exactly the requested
\* keys that the transformed record has, with its values; requested keys the
\* transformed record lacks are dropped, and links and _raw are there only when
\* requested
C22_ExactlyTheRequestedFields ==
    (Transforming /\ sparams.fieldsToExtract # <<>> /\ sresponse.data.kind # "absent") =>
        /\ Len(sres.records) = Len(sresponse.data.value)
        /\ \A n \in 1..Len(sres.records) :
             LET full == Transformed(TypeOf(smethod[1]), sresponse.data.value[n])
                 json == sres.records[n].json
             IN  /\ DOMAIN json = DOMAIN full \cap Requested(sparams.fieldsToExtract)
                 /\ \A k \in DOMAIN json : json[k] = full[k]
C22_Witness ==
    /\ Transforming
    /\ Running("getMany")
    /\ sparams.fieldsToExtract = <<"name", ",", "missing">>
    /\ Len(sres.records) = 2
    /\ DOMAIN sres.records[1].json = {"name"}
    /\ sres.records[1].json.name = "Imprint"

RefreshFails(c) == pc[c] = "refreshing" /\ pc'[c] = "issuing"

\* C28: when two concurrent calls for one key both read the same expired entry, a
\* refresh failure in one of them removes only the stale entry it read and never a
\* fresh entry that the other call has stored in the meantime
C28_RefreshFailureSparesFreshEntry ==
    [][\A c \in Calls :
          (RefreshFails(c) /\ HasEntry(c) /\ isTokenValid(Entry(c), now))
             => (HasEntry(c)' /\ Entry(c)' = Entry(c))]_vars

\* the messages executeSprykerRequest throws for a first failure it does not retry
FatalMessages == {RequestErrorMessage(error) : error \in {e \in ResourceErrors : e.statusCode # 401}}

\* C29: one executeSprykerRequest makes at most two transport calls: one when the
\* first call succeeds (its response is returned as it is) or fails with anything
\* but 401 (no retry), and a second one only after a first 401 and a token
\* re-acquisition that succeeded
C29_AtMostTwoTransportCalls ==
    /\ [](\A c \in Calls :
            /\ nSend[c] <= 2
            /\ nSend[c] = 2 => (retried[c] /\ result[c].state = "ok" /\ inv[c] = 2))
    /\ [][\A c \in Calls :
            (xpc[c] = "send1" /\ xpc'[c] # "send1") =>
               \/ /\ xpc'[c] = "done"
                  /\ nSend'[c] = 1
                  /\ \/ xres'[c] = Response(ResponseBody(c, 1))
                     \/ xres'[c].state = "error" /\ xres'[c].message \in FatalMessages
               \/ /\ xpc'[c] = "reauth"
                  /\ nSend'[c] = 1
                  /\ retried'[c]]_vars
C29_Witness ==
    \E c \in Calls :
        /\ xpc[c] = "done"
        /\ nSend[c] = 2
        /\ xres[c] = Response(ResponseBody(c, 2))

\* the value queryParams holds for a key (<<>>: the key is not there)
Lookup(params, key) ==
    IF \E n \in 1..Len(params) : params[n][1] = key
    THEN params[CHOOSE n \in 1..Len(params) : params[n][1] = key][2]
    ELSE <<>>
KeysOf(params) == {params[n][1] : n \in 1..Len(params)}
\* the step is a call of the modifying method `op`
Calls_(op) == Len(history') = Len(history) + 1 /\ history'[Len(history')].op = op

\* C25: addPagination(pageSize, pageNumber) sets page[limit] = pageSize when
\* pageSize is given and sets page[offset] = (pageNumber - 1) * (pageSize or 20)
\* only when pageNumber > 1; with pageNumber absent or <= 1 it adds no
\* page[offset], so the built URL has none; setEndpoint('test') and
\* addPagination(10, 2) build http://localhost/test?page[limit]=10&page[offset]=10
C25_PaginationParameters ==
    /\ [][Calls_("addPagination") =>
            LET call == history'[Len(history')]
                size == call.pageSize
                number == call.pageNumber
                before == builder.queryParams
                after == builder'.queryParams
            IN  /\ Lookup(after, "page[limit]") =
                      IF size # 0 THEN <<ToString(size)>> ELSE Lookup(before, "page[limit]")
                /\ Lookup(after, "page[offset]") =
                      IF number > 1
                      THEN <<ToString((number - 1) * (IF size # 0 THEN size ELSE 20))>>
                      ELSE Lookup(before, "page[offset]")
                /\ \A key \in (KeysOf(before) \cup KeysOf(after)) \ {"page[limit]", "page[offset]"} :
                      Lookup(after, key) = Lookup(before, key)]_vars
    /\ [](\A n \in 1..Len(built) :
            /\ (\A h \in 1..Len(history) : history[h].pageNumber <= 1)
                  => ~Contains(built[n].url, "page[offset]")
            /\ (/\ Len(history) = 2
                /\ history[1].op = "setEndpoint"
                /\ history[2] = MethodCall("addPagination", "", Undefined, 10, 2))
                  => built[n].url = <<"http://localhost", "/", "test", "?", "page[limit]", "=", "10",
                                      "&", "page[offset]", "=", "10">>)
C25_Witness ==
    /\ Len(history) = 2
    /\ history[1].op = "setEndpoint"
    /\ history[2] = MethodCall("addPagination", "", Undefined, 10, 2)
    /\ Len(built) = 1
    /\ built[1].url = <<"http://localhost", "/", "test", "?", "page[limit]", "=", "10",
                        "&", "page[offset]", "=", "10">>

\* C26: build() is idempotent and free of side effects: a build() call leaves
\* the builder as it was, and the build() calls made with no modification in
\* between all give the same URL (or the same error), the one of the builder
C26_BuildIsIdempotent ==
    /\ [][Len(built') = Len(built) + 1 => builder' = builder /\ history' = history]_vars
    /\ [](\A n \in 1..Len(built) :
            /\ built[n] = built[1]
            /\ built[n] = BuildOutcome(builderClass, builder))
C26_Witness ==
    /\ Len(history) = MaxEdits
    /\ Len(builder.queryParams) = 2
    /\ Len(built) = 2
    /\ ~built[1].threw
    /\ built[2].url = built[1].url
    /\ Contains(built[2].url, "&")

\* the calls that added a parameter: addQueryParam with a value other than
\* undefined, null and ''
RECURSIVE AddedParams(_)
AddedParams(calls) ==
    IF calls = <<>> THEN <<>>
    ELSE LET call == calls[1]
         IN  (IF call.op = "addQueryParam" /\ call.value \notin {Undefined, Null, Str(<<>>)}
              THEN <<call>> ELSE <<>>) \o AddedParams(Tail(calls))
\* the keys of those calls, each once, in the order of their first call
RECURSIVE KeysInOrder(_, _)
KeysInOrder(calls, seen) ==
    IF calls = <<>> THEN <<>>
    ELSE IF calls[1].key \in seen THEN KeysInOrder(Tail(calls), seen)
    ELSE <<calls[1].key>> \o KeysInOrder(Tail(calls), seen \cup {calls[1].key})
\* the value of the latest of those calls for a key
LatestValue(calls, key) ==
    LET last == CHOOSE n \in 1..Len(calls) :
                   /\ calls[n].key = key
                   /\ \A m \in (n + 1)..Len(calls) : calls[m].key # key
    IN  TextOf(calls[last].value)
ExpectedParams(calls) ==
    LET added == AddedParams(calls)
        keys == KeysInOrder(added, {})
    IN  [n \in 1..Len(keys) |-> <<keys[n], LatestValue(added, keys[n])>>]
OnlyQueryParams == \A h \in 1..Len(history) : history[h].op \in {"setEndpoint", "addQueryParam"}

\* C27: the query string of build() holds exactly the parameters added with a
\* value other than undefined, null and '', each key once, in the order in
\* which they were added
C27_QueryStringKeepsInsertionOrder ==
    (OnlyQueryParams /\ builderClass # "none") =>
        /\ builder.queryParams = ExpectedParams(history)
        /\ \A n \in 1..Len(built) :
              ~built[n].threw =>
                 built[n].url = builder.baseUrl \o <<"/">> \o TextOf(builder.endpoint)
                                  \o (IF ExpectedParams(history) # <<>>
                                      THEN <<"?">> \o QueryString(ExpectedParams(history))
                                      ELSE <<>>)

\* the tokens requests carry
BearerTokens == {"access-1", "access-2", "secret-token", "another-secret"}
Leaks(str) == \E n \in 1..Len(str) : str[n] \in BearerTokens
\* the entries the logger holds in its buffer or has written to the log file
LoggedEntries ==
    {logger.logBuffer[n] : n \in 1..Len(logger.logBuffer)} \cup {logger.file[n] : n \in 1..Len(logger.file)}

\* C24: no entry the logger buffers or writes holds a bearer token: an
\* Authorization (or authorization) header in an entry has the value
\* '[REDACTED]' at every log level and with every logging option, and no other
\* field of the entry holds a token
C24_LoggedRequestsHoldNoToken ==
    \A entry \in LoggedEntries :
        /\ \A h \in DOMAIN entry.request.headers :
              /\ ~Leaks(entry.request.headers[h])
              /\ h \in {"Authorization", "authorization"} => entry.request.headers[h] = Redacted
        /\ ~Leaks(entry.request.url)
        /\ ~Leaks(entry.request.body)
        /\ ~Leaks(entry.response.body)
        /\ ~Leaks(entry.error.message)
C24_Witness ==
    /\ lx.pc = "request"
    /\ lx.calls = 2
    /\ lx.params.logLevel = "detailed"
    /\ request.headers["Authorization"] = BearerOf("access-2")
    /\ logger.logBuffer = <<>>
    /\ \E n \in 1..Len(logger.file) :
          /\ logger.file[n].requestId = lx.requestId
          /\ logger.file[n].request.headers["Authorization"] = Redacted
          /\ logger.file[n].request.url = request.uri

\* the failures the catch block has a retry branch for
RetryableKind(error) == error.statusCode \in {401, 429} \/ error.code \in {"ETIMEDOUT", "ECONNRESET"}

\* C30: executeSprykerRequestWithLogging ends after at most maxRetries + 1
\* transport calls: it calls again only after a 401 (with the re-acquired token
\* in the header), a 429, a timeout or a connection reset, and only while
\* attempt <= maxRetries; any other failure ends it at once, and a call that
\* ends without success throws the error formatted from its last failure
C30_BoundedRetries ==
    /\ [](lx.calls <= lx.maxRetries + 1 /\ lx.attempt <= lx.maxRetries + 1)
    /\ [][(lx.calls >= 1 /\ lx'.calls = lx.calls + 1) =>
            /\ RetryableKind(lx.lastError)
            /\ lx.attempt <= lx.maxRetries
            /\ lx.lastError.statusCode = 401 => request'.headers["Authorization"] = BearerOf("access-2")]_vars
    /\ [][(lx.pc = "request" /\ lx'.pc # "request" /\ lx'.outcome.state # "ok") =>
            IF RetryableKind(lx'.lastError) /\ lx.attempt <= lx.maxRetries
            THEN lx'.pc \in {"token", "delay"} /\ lx'.outcome = NoResponse
            ELSE /\ lx'.pc = "done"
                 /\ lx'.calls = lx.calls
                 /\ lx'.outcome = RequestFailure(formatSprykerError(lx'.lastError))]_vars
    /\ [](lx.pc = "done" /\ lx.outcome.state # "ok" =>
            \/ lx.outcome = RequestFailure(formatSprykerError(lx.lastError))
            \/ /\ lx.lastError.statusCode = 401
               /\ lx.outcome = RequestFailure(<<"Authentication failed after retry: ">> \o AuthenticationError))
    /\ [](lx.pc # "idle" => <>(lx.pc = "done"))
C30_Witness ==
    /\ lx.pc = "done"
    /\ lx.maxRetries = 2
    /\ lx.calls = 3
    /\ Len(lx.delays) = 2
    /\ lx.outcome = RequestFailure(formatSprykerError(lx.lastError))

\* the call ends in the failure thrown after the last attempt
EndsExhausted(c) ==
    /\ pc[c] # "done"
    /\ pc'[c] = "done"
    /\ result'[c].state = "error"
    /\ nIssue'[c] = MAX_RETRY_ATTEMPTS

\* C31: with the calls made one after another, a getValidAccessToken call that
\* fails after its last attempt leaves no entry for its key in the cache: the
\* stale entry whose refresh failed is gone and nothing was stored for the failure
C31_FailureLeavesNoEntry ==
    [][\A c \in Calls : EndsExhausted(c) => ckey[c] \notin DOMAIN tokenCache']_vars
C31_Witness ==
    \E c \in Calls :
        /\ pc[c] = "done"
        /\ result[c].state = "error"
        /\ nRefresh[c] = 1
        /\ nIssue[c] = MAX_RETRY_ATTEMPTS
        /\ ckey[c] \in DOMAIN lastWrite
        /\ ckey[c] \notin DOMAIN tokenCache

\* the entry of key k, or its absence, is the same after the step
SameEntry(k) ==
    /\ (k \in DOMAIN tokenCache') = (k \in DOMAIN tokenCache)
    /\ k \in DOMAIN tokenCache => tokenCache'[k] = tokenCache[k]

\* C32: a step of a getValidAccessToken call for key k (cache hit, refresh,
\* issuance, failure) creates, replaces or deletes the entry of k only; the
\* entries of the other keys, expired or not, stay as they are
C32_OnlyOwnKeyTouched ==
    [][\A c \in Calls : Moves(c) => \A k \in Keys \ {ckey'[c]} : SameEntry(k)]_vars
C32_Witness ==
    \E c \in Calls, k \in Keys :
        /\ pc[c] = "done"
        /\ result[c].state = "ok"
        /\ result[c].via # "cache"
        /\ k # ckey[c]
        /\ k \in DOMAIN tokenCache
        /\ ~isTokenValid(tokenCache[k], now)
        /\ tokenCache[k] = lastWrite[k]

\* the call returns the cached access token without a request to the server
CacheHit(c) ==
    /\ pc[c] # "done"
    /\ pc'[c] = "done"
    /\ result'[c].state = "ok"
    /\ result'[c].via = "cache"
    /\ nIssue'[c] = 0
    /\ nRefresh'[c] = 0
\* the call whose request the server answered with the token
ObtainedBy(token) == token.id[1]

\* C33: a cached token is handed out only to a caller whose whole credential,
\* password included, equals the credential that obtained it: a call with the
\* same baseUrl and username and another password gets no cache hit
C33_CacheHitNeedsSamePassword ==
    [][\A c \in Calls : CacheHit(c) => creds[c] = creds[ObtainedBy(result'[c].token)]]_vars

\* the call reads the cache at the instant an issuance stored the entry of its key
ReadsFreshlyIssued(c) ==
    /\ pc[c] = "creds"
    /\ pc'[c] # "creds"
    /\ CredentialsErrorMessage(creds[c]) = <<>>
    /\ ticks = 0
    /\ HasEntry(c)
    /\ Entry(c) = lastWrite[ckey[c]]
    /\ Entry(c).accessToken.id[3] = "issue"

\* C34: after a successful token issuance, a getValidAccessToken call made at
\* once for the same credential is a cache hit with no network request, for
\* every positive expiresIn of the response, 60 seconds and less included
C34_ImmediateCallIsCacheHit ==
    [][\A c \in Calls : ReadsFreshlyIssued(c) => CacheHit(c)]_vars

\* the step is a call of the static method cleanupExpiredTokens
Purges ==
    /\ adminResult'.op = "cleanupExpiredTokens"
    /\ UNCHANGED <<authVars, execVars, now>>
\* the step belongs to a request or to the clock
CallOrClock == ~UNCHANGED <<authVars, execVars, now>>

\* C35: cleanupExpiredTokens removes exactly the entries with now >= expiresAt,
\* which are the entries getValidAccessToken would not take as a cache hit at
\* that instant, returns how many it removed and leaves the other entries as
\* they are; nothing else purges: outside the administrative methods an entry
\* goes only when the refresh of its own key fails
C35_CleanupRemovesExactlyExpired ==
    /\ [][Purges =>
            /\ DOMAIN tokenCache' = {k \in DOMAIN tokenCache : now < tokenCache[k].expiresAt}
            /\ DOMAIN tokenCache \ DOMAIN tokenCache' =
                  {k \in DOMAIN tokenCache : ~isTokenValid(tokenCache[k], now)}
            /\ \A k \in DOMAIN tokenCache' : tokenCache'[k] = tokenCache[k]
            /\ adminResult'.removed = Cardinality(DOMAIN tokenCache \ DOMAIN tokenCache')]_vars
    /\ [][CallOrClock =>
            \A k \in DOMAIN tokenCache \ DOMAIN tokenCache' :
               \E c \in Calls : ckey[c] = k /\ pc[c] = "refreshing" /\ pc'[c] = "issuing"]_vars
C35_Witness ==
    /\ adminResult.op = "cleanupExpiredTokens"
    /\ adminResult.removed = 1
    /\ Cardinality(DOMAIN lastWrite) = 2
    /\ Cardinality(DOMAIN tokenCache) = 1
    /\ \A k \in DOMAIN tokenCache : isTokenValid(tokenCache[k], now) /\ tokenCache[k] = lastWrite[k]
    /\ \A k \in DOMAIN lastWrite \ DOMAIN tokenCache : now = lastWrite[k].expiresAt

\* C36: for every item the access token is obtained before the resource request is
\* sent: no transport call is made while createSprykerRequest waits for
\* getValidAccessToken; when the token call returns a token the Authorization
\* header is set to it and the first transport call follows; when it fails the
\* request ends with 'Authentication failed: ' followed by the failure's message
\* and no transport call is made for the item
C36_TokenBeforeRequest ==
    /\ [](\A c \in Calls :
            /\ xpc[c] \in {"idle", "create"} => (nSend[c] = 0 /\ hdr[c] = NoToken)
            /\ nSend[c] >= 1 => (hdr[c] # NoToken /\ hdr[c].part = "access"))
    /\ [][\A c \in Calls :
            (xpc[c] = "create" /\ xpc'[c] # "create")
               => /\ pc[c] = "done"
                  /\ IF result[c].state = "ok"
                     THEN /\ xpc'[c] = "send1"
                          /\ hdr'[c] = result[c].token
                          /\ nSend'[c] = 1
                     ELSE /\ xpc'[c] = "done"
                          /\ nSend'[c] = 0
                          /\ hdr'[c] = NoToken
                          /\ xres'[c].state = "error"
                          /\ xres'[c].message = <<"Authentication failed: ">> \o result[c].message
       ]_vars
\* one item failed to get a token and sent nothing, the next sent its request with
\* the token it was issued
C36_Witness ==
    \E c, d \in Calls :
        /\ xpc[c] = "done" /\ xres[c].state = "error" /\ nSend[c] = 0
        /\ Head(xres[c].message) = "Authentication failed: "
        /\ xpc[d] = "done" /\ xres[d].state = "ok" /\ nSend[d] = 1
        /\ hdr[d] = AccessTokenOf(<<d, 1, "issue">>)

\* the outcome of request `requestId` has been handed to logResponse or logError
Reported(requestId) ==
    \/ requestId < lx.requestId
    \/ requestId = lx.requestId /\ lx.pc = "done"
HasOutcome(entry) == entry.response # NoLogResponse \/ entry.error # NoLogError

\* C37: with logging enabled, every recorded request whose outcome was reported
\* through logResponse or logError with the id logRequest returned has that
\* response or error attached to its entry, in the buffer and in the log file, the
\* request that fills the 10-entry buffer included
C37_ReportedOutcomeIsPersisted ==
    \A n \in 1..Len(logger.file \o logger.logBuffer) :
        LET entry == (logger.file \o logger.logBuffer)[n]
        IN  Reported(entry.requestId) => HasOutcome(entry)

====
